---- MODULE Spec2Model ----
(***************************************************************************)
(* A model of gocsaf/fakedoc: the generation engine of pkg/fakedoc         *)
(* (generator.go), its namespace ledger with snapshot and rollback, the    *)
(* reference fixup pass, the limit tree (limits.go) and the pattern        *)
(* sampler (regexp.go).                                                    *)
(*                                                                         *)
(* The recursive descent of generateNode is modelled as a machine with an  *)
(* explicit call stack: one frame per activation of generateNode,          *)
(* generateObject, randomArray, generateItemUntil and randomOneOf; a step  *)
(* runs the activation on top of the stack up to its next call or return.  *)
(***************************************************************************)
EXTENDS Integers, Sequences, FiniteSets, TLC

VARIABLES
  input,        \* what NewGenerator is given: template, limits, size factor, force-max-size
  Template,     \* Generator.Template (the OneOf lists are shuffled in place)
  Limits,       \* Generator.Limits
  SizeFactor,   \* Generator.SizeFactor, as a pair <<numerator, denominator>>
  ForceMaxSize, \* Generator.ForceMaxSize
  Rand,         \* Generator.Rand
  NameSpaces,   \* Generator.NameSpaces: namespace -> [Values, Refs], both slice headers
  mem,          \* the backing arrays the slice headers of the ledger point into
  refs,         \* the heap of reference objects, a *reference is an index
  stack,        \* the call stack of the running Generate()
  ret,          \* the values returned by the activation that returned last
  phase,        \* "idle", "generate" or "fixup"
  doc,          \* Generate's local doc
  fix,          \* the position of fixupReferences' loops
  minted,       \* the <<namespace, id>> pairs generateID produced during the current Generate()
  results,      \* what each Generate() call returned
  re,           \* the pattern under test of the pattern sampler
  sample,       \* the string Pattern.Sample returned
  FileCache,    \* Generator.FileCache
  fs,           \* the files book reads, and how often each was opened
  gens,         \* the Generators that run Generate() side by side on one Template
  walk,         \* a limit tree and the position of a descent through it
  cli           \* a run of the command's generateToFile and the files it created

vars == <<input, Template, Limits, SizeFactor, ForceMaxSize, Rand, NameSpaces, mem,
          refs, stack, ret, phase, doc, fix, minted, results, re, sample,
          FileCache, fs, gens, walk, cli>>

conf == <<input, Limits, SizeFactor, ForceMaxSize>>

reVars == <<re, sample>>

auxVars == <<FileCache, fs, gens, walk, cli>>

-----------------------------------------------------------------------------
(* Bounds of the model *)

\* how many Generate() calls are made on one Generator
MaxCalls == 2

\* how many of the characters of randomString's alphabet the model draws from
NumChars == 2

\* the longest string randomString is let to draw (never below its minlength)
StrLenCap == 1

\* how many Generators run Generate() side by side on one Template
NumGenerators == 2

\* how many segments a descent through the limit tree takes
MaxWalk == 4

\* how many times book is called on one Generator
MaxBooks == 3

\* the most documents one run of the command writes (its -n option)
MaxOutputs == 2

\* Generate() is called again only on a ledger that holds at most this many
\* identifiers and placeholders
MaxLedger == 2

(* Program constants *)

\* the depth budget Generate() hands to the root generateNode
RootDepth == 25

\* the attempts randomArray allows generateItemUntil per slot
MaxAttempts == 10

\* generateID draws randomString(1, 20)
IDMinLen == 1

IDMaxLen == 20

\* the range an unbounded string length gets: maxlength = minlength + 10
DefaultExtraLen == 10

-----------------------------------------------------------------------------
(* Helpers *)

Min(a, b) == IF a < b THEN a ELSE b

max(a, b) == IF a > b THEN a ELSE b

Range(s) == {s[i] : i \in DOMAIN s}

\* the sequences over 1..n in which every number occurs once
Permutations1(n) == {p \in [1..n -> 1..n] : \A i, j \in 1..n : p[i] = p[j] => i = j}

\* the sequences that enumerate the set S once each
Orders(S) ==
  {o \in [1..Cardinality(S) -> S] : \A i, j \in 1..Cardinality(S) : o[i] = o[j] => i = j}

\* slices.Delete(s, i, i+1), with i counted from 1
Delete(s, i) == [k \in 1..(Len(s) - 1) |-> IF k < i THEN s[k] ELSE s[k + 1]]

RECURSIVE SumSeq(_)
SumSeq(s) == IF s = <<>> THEN 0 ELSE Head(s) + SumSeq(Tail(s))

-----------------------------------------------------------------------------
(* Errors *)

NoError == [msg |-> "", wraps |-> "", arg |-> ""]

ErrBranchAbandoned == [msg |-> "branch abandoned", wraps |-> "", arg |-> ""]

ErrDepthExceeded ==
  [msg |-> "maximum depth exceeded", wraps |-> "branch abandoned", arg |-> ""]

ErrNoValidValue ==
  [msg |-> "could not generate valid value", wraps |-> "branch abandoned", arg |-> ""]

\* fmt.Errorf("%w: no IDs in namespace %q", ErrBranchAbandoned, namespace)
ErrNoIDs(namespace) ==
  [msg |-> "no IDs in namespace", wraps |-> "branch abandoned", arg |-> namespace]

ErrUnknownType(typename) == [msg |-> "unknown type", wraps |-> "", arg |-> typename]

ErrNoneOf == [msg |-> "could not generate any of", wraps |-> "", arg |-> ""]

ErrTooFewProperties ==
  [msg |-> "could not generate at least minProps properties", wraps |-> "", arg |-> ""]

ErrFixupNoIDs(name) ==
  [msg |-> "no IDs when filling references in namespace", wraps |-> "", arg |-> name]

ErrInvalidString == [msg |-> "not valid utf-8", wraps |-> "", arg |-> ""]

\* the error of os.Open or io.ReadAll
ErrFile(op, path) == [msg |-> op, wraps |-> "", arg |-> path]

\* the panic of rand.IntN(n) with n <= 0
PanicIntN == [msg |-> "panic: invalid argument to IntN", wraps |-> "", arg |-> ""]

\* the panic of chooseK that indexes perm beyond its length
PanicIndex == [msg |-> "panic: index out of range", wraps |-> "", arg |-> ""]

\* errors.Is(err, ErrBranchAbandoned)
IsBranchAbandoned(err) == err = ErrBranchAbandoned \/ err.wraps = "branch abandoned"

\* errors.Is(err, ErrNoValidValue)
IsNoValidValue(err) == err = ErrNoValidValue

-----------------------------------------------------------------------------
(* Values of the generated tree.  A string is a sequence of characters.    *)

NilV == [tag |-> "nil"]

StrV(s) == [tag |-> "string", s |-> s]

\* the string generateID returns; ns keeps the namespace it was generated for
IdV(namespace, s) == [tag |-> "string", s |-> s, ns |-> namespace]

\* a *reference
RefV(p) == [tag |-> "ref", ptr |-> p]

\* a []any; unique records that the array came from a node with UniqueItems
ArrV(items, unique) == [tag |-> "array", items |-> items, unique |-> unique]

\* a map[string]any
ObjV(props) == [tag |-> "object", props |-> props]

\* the alphabet of randomString, of which the model uses the first NumChars
chars == <<"a", "b", "c", "d">>

Chars == {chars[i] : i \in 1..Min(NumChars, Len(chars))}

RECURSIVE StringsOfLen(_)
StringsOfLen(n) ==
  IF n <= 0 THEN {<<>>}
  ELSE {Append(s, c) : s \in StringsOfLen(n - 1), c \in Chars}

\* the strings randomString(minlength, maxlength) can return
randomString(minlength, maxlength) ==
  LET lo == IF minlength < 0 THEN 0 ELSE minlength
      hi == IF maxlength < 0 THEN lo + DefaultExtraLen ELSE maxlength
  IN UNION {StringsOfLen(l) : l \in {k \in lo..hi : k <= max(lo, StrLenCap)}}

-----------------------------------------------------------------------------
(* Slices.  A slice header names a backing array of mem and a length; its  *)
(* capacity is the length of the backing array.  Copying a header shares   *)
(* the array, as NameSpace.snapshot does.                                  *)

NilSlice == [arr |-> 0, len |-> 0]

Cap(m, sl) == IF sl.arr = 0 THEN 0 ELSE Len(m[sl.arr])

\* the elements a slice header shows
Elems(m, sl) == [i \in 1..sl.len |-> m[sl.arr][i]]

\* the capacity append gives a full slice that grows by one element
GrowCap(cap) == IF cap = 0 THEN 1 ELSE 2 * cap

\* append(sl, v): in place when the capacity allows, else into a new array
AppendSlice(m, sl, v, zero) ==
  IF sl.len < Cap(m, sl)
  THEN [mem |-> [m EXCEPT ![sl.arr][sl.len + 1] = v],
        slice |-> [arr |-> sl.arr, len |-> sl.len + 1]]
  ELSE LET old == Elems(m, sl)
           new == [i \in 1..GrowCap(Cap(m, sl)) |->
                     IF i <= sl.len THEN old[i] ELSE IF i = sl.len + 1 THEN v ELSE zero]
       IN [mem |-> Append(m, new), slice |-> [arr |-> Len(m) + 1, len |-> sl.len + 1]]

-----------------------------------------------------------------------------
(* The namespace ledger.  Each operator takes the ledger (and the memory)  *)
(* and gives the ledger (and the memory) the method leaves behind.         *)

NewNameSpace == [Values |-> NilSlice, Refs |-> NilSlice]

\* getNamespace adds the namespace to the map when it is not there
getNamespace(ns, namespace) ==
  IF namespace \in DOMAIN ns THEN ns ELSE ns @@ (namespace :> NewNameSpace)

\* addNSValue / NameSpace.addValue
addNSValue(ns, m, namespace, v) ==
  LET ns1 == getNamespace(ns, namespace)
      a == AppendSlice(m, ns1[namespace].Values, v, <<>>)
  IN [ns |-> [ns1 EXCEPT ![namespace].Values = a.slice], mem |-> a.mem]

\* adNSRef / NameSpace.addRef
adNSRef(ns, m, namespace, r) ==
  LET ns1 == getNamespace(ns, namespace)
      a == AppendSlice(m, ns1[namespace].Refs, r, 0)
  IN [ns |-> [ns1 EXCEPT ![namespace].Refs = a.slice], mem |-> a.mem]

\* hasNSValues, on the ledger getNamespace leaves behind
hasNSValues(ns, namespace) == getNamespace(ns, namespace)[namespace].Values.len > 0

\* numNSValues, on the ledger getNamespace leaves behind
numNSValues(ns, namespace) == getNamespace(ns, namespace)[namespace].Values.len

\* a snapshot that keeps the placeholders and leaves out the values
snapshotOfRefs(n) == [Values |-> NilSlice, Refs |-> n.Refs]

\* NameSpace.snapshot: a new NameSpace with the same two slice headers
snapshot(n) == [Values |-> n.Values, Refs |-> n.Refs]

\* snapshotNamespaces: a new map with a snapshot of every namespace
snapshotNamespaces(ns) == [name \in DOMAIN ns |-> snapshot(ns[name])]

\* a restoreSnapshot that leaves the ledger as it is
keepLedger(ns, snap) == ns

\* a restoreSnapshot that puts back the values and keeps the placeholders
restoreValues(ns, snap) ==
  [name \in DOMAIN ns |->
     [Values |-> IF name \in DOMAIN snap THEN snap[name].Values ELSE NilSlice,
      Refs |-> ns[name].Refs]]

\* restoreSnapshot: gen.NameSpaces = snapshot
restoreSnapshot(ns, snap) == snap

\* a deferred function that restores the snapshot after every error
restoresAlways(ns, snap, err) == IF err # NoError THEN restoreSnapshot(ns, snap) ELSE ns

\* the deferred function of generateNode
deferredRestore(ns, snap, err) ==
  IF IsBranchAbandoned(err) THEN restoreSnapshot(ns, snap) ELSE ns

\* what a ledger holds, read through its slice headers: for every namespace
\* that holds anything, its identifier values and its placeholders
Ledger(ns, m) ==
  LET held == {name \in DOMAIN ns : ns[name].Values.len > 0 \/ ns[name].Refs.len > 0}
  IN [name \in held |->
        [Values |-> Elems(m, ns[name].Values), Refs |-> Elems(m, ns[name].Refs)]]

\* how many identifiers and placeholders the ledger holds
LedgerSize(ns) ==
  LET names == CHOOSE o \in Orders(DOMAIN ns) : TRUE
  IN SumSeq([i \in DOMAIN names |-> ns[names[i]].Values.len + ns[names[i]].Refs.len])

ValuesOf(ns, m, name) == IF name \in DOMAIN ns THEN Elems(m, ns[name].Values) ELSE <<>>

RefsOf(ns, m, name) == IF name \in DOMAIN ns THEN Elems(m, ns[name].Refs) ELSE <<>>

-----------------------------------------------------------------------------
(* The random source.  A draw is named by what is asked (IntN(n), Perm(n), *)
(* ...) and takes one of the outcomes possible for it.  A seeded source is *)
(* a function of the draws made so far: in mode "record" the draws are     *)
(* logged, in mode "replay" a second source with the same seed repeats     *)
(* them as long as the same questions are asked.                           *)

FreeRand == [mode |-> "free", log |-> <<>>, pos |-> 0, diverged |-> FALSE]

SeededRand == [mode |-> "record", log |-> <<>>, pos |-> 0, diverged |-> FALSE]

\* the replaying source r is asked what the recorded one was asked at this point
Replays(r, ask) ==
  r.mode = "replay" /\ ~r.diverged /\ r.pos < Len(r.log) /\ r.log[r.pos + 1].ask = ask

\* the outcomes the source r can give to the draw ask out of the set S
Draws(r, ask, S) == IF Replays(r, ask) THEN {r.log[r.pos + 1].out} ELSE S

\* the source after it gave out to the draw ask
Drawn(r, ask, out) ==
  CASE r.mode = "free" -> r
    [] r.mode = "record" ->
         [r EXCEPT !.log = Append(@, [ask |-> ask, out |-> out]), !.pos = @ + 1]
    [] OTHER -> IF Replays(r, ask) THEN [r EXCEPT !.pos = @ + 1]
                ELSE [r EXCEPT !.diverged = TRUE]

\* rand.IntN(n), counted from 0
IntN(n) == 0..(n - 1)

AskIntN(n) == <<"IntN", n>>

AskPerm(n) == <<"Perm", n>>

AskShuffle(n) == <<"Shuffle", n>>

AskString(lo, hi) == <<"randomString", lo, hi>>

\* choose(rand, choices): choices[rand.IntN(len(choices))]
choose(choices, i) == choices[i + 1]

\* chooseK(rand, k, choices), given the permutation rand.Perm(len(choices)) drew
chooseK(k, choices, perm) == [i \in 1..k |-> choices[perm[i]]]

\* shuffle(rand, ts), given the permutation the swaps of rand.Shuffle amount to
shuffle(ts, perm) == [i \in 1..Len(ts) |-> ts[perm[i]]]

-----------------------------------------------------------------------------
(* The limit tree *)

\* a nil *LimitNode
NilNode == [nil |-> TRUE]

\* NewLimitNode
NewLimitNode == [nil |-> FALSE, Limit |-> 0, Branches |-> <<>>]

PathEntry(name, array, recursive) == [Name |-> name, Array |-> array, Recursive |-> recursive]

\* LimitNode.insert
RECURSIVE insert(_, _, _)
insert(ln, path, limit) ==
  IF Len(path) = 0 THEN [ln EXCEPT !.Limit = limit]
  ELSE LET name == path[1].Name
           node == IF name \in DOMAIN ln.Branches THEN ln.Branches[name] ELSE NewLimitNode
           sub == insert(node, Tail(path), limit)
       IN [ln EXCEPT !.Branches =
             [n \in DOMAIN ln.Branches \cup {name} |->
                IF n = name THEN sub ELSE ln.Branches[n]]]

RECURSIVE insertPaths(_, _, _)
insertPaths(node, paths, limit) ==
  IF paths = <<>> THEN node
  ELSE insertPaths(insert(node, Head(paths), limit), Tail(paths), limit)

RECURSIVE insertRules(_, _)
insertRules(node, rules) ==
  IF rules = <<>> THEN node
  ELSE insertRules(insertPaths(node, Head(rules).Paths, Head(rules).Length), Tail(rules))

\* a Descend that gives a new node where there is no child
descendOrNew(ln, name) ==
  IF ln = NilNode THEN NilNode
  ELSE IF name \in DOMAIN ln.Branches THEN ln.Branches[name] ELSE NewLimitNode

\* a nil *Limits
NilLimits == [nil |-> TRUE]

\* The text of a path is the sequence of its tokens: "/", "(", ")", "*", "[]"
\* and names.
\* recursionRe.ReplaceAllStringFunc: every "(/...)*" with no ")" inside, taken
\* from the left, becomes "/...*"
RECURSIVE unparen(_)
unparen(text) ==
  IF text = <<>> THEN <<>>
  ELSE LET closing == {q \in 3..Len(text) : text[q] = ")"}
           q == CHOOSE c \in closing : \A d \in closing : c <= d
       IN IF /\ Head(text) = "(" /\ Len(text) >= 2 /\ text[2] = "/"
             /\ closing # {} /\ q >= 4 /\ q + 1 <= Len(text) /\ text[q + 1] = "*"
          THEN SubSeq(text, 2, q - 1) \o <<"*">> \o unparen(SubSeq(text, q + 2, Len(text)))
          ELSE <<Head(text)>> \o unparen(Tail(text))

\* strings.Split(path, "/")
RECURSIVE Split(_)
Split(text) ==
  IF \A k \in DOMAIN text : text[k] # "/" THEN <<text>>
  ELSE LET k == CHOOSE c \in DOMAIN text : text[c] = "/" /\ \A d \in 1..(c - 1) : text[d] # "/"
       IN <<SubSeq(text, 1, k - 1)>> \o Split(SubSeq(text, k + 1, Len(text)))

\* strings.CutSuffix(e, suffix)
CutSuffix(e, suffix) ==
  IF Len(e) >= Len(suffix) /\ SubSeq(e, Len(e) - Len(suffix) + 1, Len(e)) = suffix
  THEN [before |-> SubSeq(e, 1, Len(e) - Len(suffix)), found |-> TRUE]
  ELSE [before |-> e, found |-> FALSE]

\* the string of the tokens of a name; the names of the model are one token
NameString(tokens) == IF Len(tokens) = 1 THEN tokens[1] ELSE ""

\* Path.UnmarshalText
UnmarshalPath(text) ==
  LET es == SelectSeq(Split(unparen(text)), LAMBDA e : e # <<>>)
  IN [k \in DOMAIN es |->
        LET a == CutSuffix(es[k], <<"*">>)
            n == CutSuffix(a.before, <<"[]">>)
        IN PathEntry(NameString(n.before), n.found, a.found)]

\* Limits.ArrayLimits
ArrayLimits(lim) ==
  IF lim = NilLimits THEN NewLimitNode ELSE insertRules(NewLimitNode, lim.ArrayLength)

\* LimitNode.Descend
Descend(ln, name) ==
  IF ln = NilNode THEN NilNode
  ELSE IF name \in DOMAIN ln.Branches THEN ln.Branches[name] ELSE NilNode

\* LimitNode.GetLimit
GetLimit(ln) == IF ln = NilNode THEN 0 ELSE ln.Limit

-----------------------------------------------------------------------------
(* Template nodes *)

Property(name, type, required) == [Name |-> name, Type |-> type, Required |-> required]

TmplObject(properties, minproperties, maxproperties) ==
  [kind |-> "object", Properties |-> properties,
   MinProperties |-> minproperties, MaxProperties |-> maxproperties]

TmplArray(items, minitems, maxitems, uniqueitems) ==
  [kind |-> "array", Items |-> items, MinItems |-> minitems, MaxItems |-> maxitems,
   UniqueItems |-> uniqueitems]

TmplOneOf(oneof) == [kind |-> "oneof", OneOf |-> oneof]

\* a TmplString; Enum is a sequence of strings, empty when there is none
TmplString(minlength, maxlength, enum) ==
  [kind |-> "string", MinLength |-> minlength, MaxLength |-> maxlength, Enum |-> enum]

TmplID(namespace) == [kind |-> "id", Namespace |-> namespace]

TmplRef(namespace) == [kind |-> "ref", Namespace |-> namespace]

TmplBook(minlength, maxlength, path) ==
  [kind |-> "book", MinLength |-> minlength, MaxLength |-> maxlength, Path |-> path]

\* TmplObject.FromToml accepts the bounds of an object node
FromTomlAccepts(t) ==
  /\ ~(Len(t.Properties) < t.MinProperties)
  /\ ~(t.MaxProperties >= 0 /\ t.MinProperties > t.MaxProperties)

-----------------------------------------------------------------------------
(* Structural equality and hashing of array items *)

\* a reference object; Values = <<>> with isNil when Values is nil
NewReference(namespace, length) ==
  [Namespace |-> namespace, Length |-> length, Values |-> <<>>, isNil |-> TRUE,
   fixups |-> 0]

\* reflect.DeepEqual on two values of the tree; h is the heap of references
RECURSIVE DeepEqual(_, _, _)
DeepEqual(h, a, b) ==
  IF a.tag # b.tag THEN FALSE
  ELSE CASE a.tag = "string" -> a.s = b.s
         [] a.tag = "ref" ->
              \/ a.ptr = b.ptr
              \/ /\ h[a.ptr].Namespace = h[b.ptr].Namespace
                 /\ h[a.ptr].Length = h[b.ptr].Length
                 /\ h[a.ptr].isNil = h[b.ptr].isNil
                 /\ h[a.ptr].Values = h[b.ptr].Values
         [] a.tag = "array" ->
              /\ Len(a.items) = Len(b.items)
              /\ \A i \in 1..Len(a.items) : DeepEqual(h, a.items[i], b.items[i])
         [] a.tag = "object" ->
              /\ DOMAIN a.props = DOMAIN b.props
              /\ \A k \in DOMAIN a.props : DeepEqual(h, a.props[k], b.props[k])
         [] OTHER -> TRUE

\* the property names of the templates, in the order slices.Sorted puts them
SortedNames == <<"a", "b", "c", "id", "k", "next", "r", "s">>

\* slices.Sorted(maps.Keys(a))
SortedKeys(props) == SelectSeq(SortedNames, LAMBDA n : n \in DOMAIN props)

\* demap: a map becomes the list of its keys and demapped values, keys sorted
RECURSIVE demap(_)
demap(v) ==
  CASE v.tag = "object" ->
         LET keys == SortedKeys(v.props)
         IN ArrV([i \in 1..(2 * Len(keys)) |->
                    IF i % 2 = 1 THEN [tag |-> "key", name |-> keys[(i + 1) \div 2]]
                    ELSE demap(v.props[keys[i \div 2]])], FALSE)
    [] v.tag = "array" -> ArrV([i \in 1..Len(v.items) |-> demap(v.items[i])], FALSE)
    [] OTHER -> v

\* the number of buckets the digest below has, standing for the 2^64 of FNV-64
HashBuckets == 2

\* the length of the encoding gob gives a demapped value
RECURSIVE gobLen(_, _)
gobLen(h, v) ==
  CASE v.tag = "string" -> 1 + Len(v.s)
    [] v.tag = "key" -> 1
    [] v.tag = "ref" -> 3 + h[v.ptr].Length + Len(h[v.ptr].Values)
    [] v.tag = "array" -> 1 + SumSeq([i \in 1..Len(v.items) |-> gobLen(h, v.items[i])])
    [] OTHER -> 0

\* the function itemHasher returns: a digest of the encoding of demap(v).  Equal
\* encodings have equal digests, and different ones may collide
itemHasher(h, v) == gobLen(h, demap(v)) % HashBuckets

\* the closure notInItems of randomArray, given the key hasher(v)
notInItems(h, hashes, key, v) ==
  ~(key \in DOMAIN hashes /\ \E i \in 1..Len(hashes[key]) : DeepEqual(h, hashes[key][i], v))

\* hashes[key] = append(hashes[key], item)
hashesAppend(hashes, key, item) ==
  [k \in DOMAIN hashes \cup {key} |->
     IF k = key THEN Append(IF key \in DOMAIN hashes THEN hashes[key] ELSE <<>>, item)
     ELSE hashes[k]]

\* properties[name] = value
Put(props, name, value) ==
  [k \in DOMAIN props \cup {name} |-> IF k = name THEN value ELSE props[k]]

-----------------------------------------------------------------------------
(* Frames of the call stack *)

NoRet == [val |-> NilV, err |-> NoError, fn |-> "", restored |-> FALSE]

Returned(fn, val, err) == [val |-> val, err |-> err, fn |-> fn, restored |-> FALSE]

\* an activation of generateNode; entry keeps what the ledger held at the call
NodeFrame(typename, limits, depth, ns, m) ==
  [fn |-> "generateNode", pc |-> "enter", typename |-> typename, limits |-> limits,
   depth |-> depth, snapshot |-> <<>>, entry |-> Ledger(ns, m)]

ObjectFrame(typename, limits, depth, node) ==
  [fn |-> "generateObject", pc |-> "required", typename |-> typename, limits |-> limits,
   depth |-> depth,
   required |-> SelectSeq(node.Properties, LAMBDA prop : prop.Required),
   optional |-> SelectSeq(node.Properties, LAMBDA prop : ~prop.Required),
   properties |-> <<>>, i |-> 1, prop |-> Property("", "", FALSE),
   minProps |-> 0, maxProps |-> 0, extraProps |-> 0, branchAbandoned |-> NoError,
   quota |-> 0, tried |-> <<>>]

ArrayFrame(typename, limits, depth) ==
  [fn |-> "randomArray", pc |-> "start", typename |-> typename, limits |-> limits,
   depth |-> depth, minitems |-> 0, maxitems |-> 0, length |-> 0, items |-> <<>>,
   hashes |-> <<>>, key |-> 0, slot |-> 0,
   itemOK |-> 0, itemAbandoned |-> 0, itemFatal |-> 0, lastItemErr |-> NoError]

ItemFrame(typename, maxAttempts, limits, depth, cond) ==
  [fn |-> "generateItemUntil", pc |-> "loop", typename |-> typename,
   maxAttempts |-> maxAttempts, limits |-> limits, depth |-> depth, cond |-> cond,
   attempt |-> 0]

OneOfFrame(typename, limits, depth) ==
  [fn |-> "randomOneOf", pc |-> "start", typename |-> typename, limits |-> limits,
   depth |-> depth, i |-> 1, abandoned |-> NoError, typename1 |-> "", tried |-> <<>>]

\* TmplNode.Instantiate for the nodes that recurse: the activation it starts
Instantiate(typename, node, limits, depth) ==
  CASE node.kind = "object" -> ObjectFrame(typename, limits, depth, node)
    [] node.kind = "array" -> ArrayFrame(typename, limits, depth)
    [] node.kind = "oneof" -> OneOfFrame(typename, limits, depth)

Top == stack[Len(stack)]

Running(fn, pc) ==
  /\ phase = "generate"
  /\ stack # <<>>
  /\ Top.fn = fn
  /\ Top.pc = pc

\* the activation on top goes on as cur
Goto(cur) ==
  /\ stack' = [stack EXCEPT ![Len(stack)] = cur]
  /\ ret' = NoRet

\* the activation on top goes on as cur and calls callee
Call(cur, callee) ==
  /\ stack' = Append([stack EXCEPT ![Len(stack)] = cur], callee)
  /\ ret' = NoRet

\* the activation on top returns
Return(val, err) ==
  /\ stack' = SubSeq(stack, 1, Len(stack) - 1)
  /\ ret' = Returned(Top.fn, val, err)

-----------------------------------------------------------------------------
(* The generation engine *)

others == <<conf, phase, doc, fix, results, reVars, auxVars>>

\* a nested call that is handed the depth budget of its caller unchanged
sameDepth(depth) == depth

\* a nested call that is handed two less than the depth budget of its caller
twoLess(depth) == depth - 2

\* the depth budget generateObject, randomArray, generateItemUntil and
\* randomOneOf hand to the call they make: depth-1
childDepth(depth) == depth - 1

\* int(gen.SizeFactor * float64(limits.GetLimit()))
maxLimit(limits) == (SizeFactor[1] * GetLimit(limits)) \div SizeFactor[2]

\* generateNode up to the call of Instantiate: the depth check, the snapshot,
\* the lookup of the type, and the nodes that recurse
generateNode ==
  /\ Running("generateNode", "enter")
  /\ LET f == Top
         snap == snapshotNamespaces(NameSpaces)
     IN \/ /\ f.depth <= 0
           /\ Return(NilV, ErrDepthExceeded)
           /\ UNCHANGED NameSpaces
        \/ /\ f.depth > 0
           /\ f.typename \notin DOMAIN Template.Types
           /\ Return(NilV, ErrUnknownType(f.typename))
           /\ NameSpaces' = deferredRestore(NameSpaces, snap, ErrUnknownType(f.typename))
        \/ /\ f.depth > 0
           /\ f.typename \in DOMAIN Template.Types
           /\ Template.Types[f.typename].kind \in {"object", "array", "oneof"}
           /\ Call([f EXCEPT !.pc = "defer", !.snapshot = snap],
                   Instantiate(f.typename, Template.Types[f.typename], f.limits, f.depth))
           /\ UNCHANGED NameSpaces
  /\ UNCHANGED <<Template, Rand, mem, refs, minted, others>>

\* the return of generateNode from Instantiate, through its deferred function
generateNodeDefer ==
  /\ Running("generateNode", "defer")
  /\ NameSpaces' = deferredRestore(NameSpaces, Top.snapshot, ret.err)
  /\ stack' = SubSeq(stack, 1, Len(stack) - 1)
  /\ ret' = [ret EXCEPT !.fn = "generateNode",
                        !.restored = Ledger(NameSpaces', mem) # Ledger(NameSpaces, mem)]
  /\ UNCHANGED <<Template, Rand, mem, refs, minted, others>>

\* generateNode of a TmplString: an enumerated choice, else a random string
InstantiateString ==
  /\ Running("generateNode", "enter")
  /\ Top.depth > 0
  /\ Top.typename \in DOMAIN Template.Types
  /\ LET node == Template.Types[Top.typename]
     IN /\ node.kind = "string"
        /\ \/ /\ Len(node.Enum) > 0
              /\ \E i \in Draws(Rand, AskIntN(Len(node.Enum)), IntN(Len(node.Enum))) :
                   /\ Rand' = Drawn(Rand, AskIntN(Len(node.Enum)), i)
                   /\ Return(StrV(choose(node.Enum, i)), NoError)
           \/ /\ Len(node.Enum) = 0
              /\ \E str \in Draws(Rand, AskString(node.MinLength, node.MaxLength),
                                  randomString(node.MinLength, node.MaxLength)) :
                   /\ Rand' = Drawn(Rand, AskString(node.MinLength, node.MaxLength), str)
                   /\ Return(StrV(str), NoError)
  /\ UNCHANGED <<Template, NameSpaces, mem, refs, minted, others>>

\* generateNode of a TmplID: generateID
generateID ==
  /\ Running("generateNode", "enter")
  /\ Top.depth > 0
  /\ Top.typename \in DOMAIN Template.Types
  /\ LET node == Template.Types[Top.typename]
     IN /\ node.kind = "id"
        /\ \E id \in Draws(Rand, AskString(IDMinLen, IDMaxLen), randomString(IDMinLen, IDMaxLen)) :
             LET added == addNSValue(NameSpaces, mem, node.Namespace, id)
             IN /\ Rand' = Drawn(Rand, AskString(IDMinLen, IDMaxLen), id)
                /\ NameSpaces' = added.ns
                /\ mem' = added.mem
                /\ minted' = minted \cup {<<node.Namespace, id>>}
                /\ Return(IdV(node.Namespace, id), NoError)
  /\ UNCHANGED <<Template, refs, others>>

\* generateNode of a TmplRef: generateReference
generateReference ==
  /\ Running("generateNode", "enter")
  /\ Top.depth > 0
  /\ Top.typename \in DOMAIN Template.Types
  /\ LET node == Template.Types[Top.typename]
         snap == snapshotNamespaces(NameSpaces)
     IN /\ node.kind = "ref"
        /\ \/ /\ ~hasNSValues(NameSpaces, node.Namespace)
              /\ NameSpaces' = deferredRestore(getNamespace(NameSpaces, node.Namespace),
                                               snap, ErrNoIDs(node.Namespace))
              /\ Return(NilV, ErrNoIDs(node.Namespace))
              /\ UNCHANGED <<mem, refs>>
           \/ /\ hasNSValues(NameSpaces, node.Namespace)
              /\ LET added == adNSRef(NameSpaces, mem, node.Namespace, Len(refs) + 1)
                 IN /\ refs' = Append(refs, NewReference(node.Namespace, -1))
                    /\ NameSpaces' = added.ns
                    /\ mem' = added.mem
                    /\ Return(RefV(Len(refs) + 1), NoError)
  /\ UNCHANGED <<Template, Rand, minted, others>>

\* a randomArray that goes on to the next slot after any abandon-class error
skipsAbandoned(err) == IsBranchAbandoned(err)

\* a randomArray that gives up at the first slot that found no item
neverSkips(err) == FALSE

\* whether randomArray goes on to the next slot after generateItemUntil failed with err
skipsSlot(err) == IsNoValidValue(err)

randomArray ==
  \/ /\ Running("randomArray", "start")
     /\ LET f == Top
            tmpl == Template.Types[f.typename]
            minitems == IF tmpl.MinItems < 0 THEN 0 ELSE tmpl.MinItems
            maxitems == IF tmpl.MaxItems < 0 THEN max(minitems, maxLimit(f.limits))
                        ELSE tmpl.MaxItems
            isRef == /\ tmpl.Items \in DOMAIN Template.Types
                     /\ Template.Types[tmpl.Items].kind = "ref"
            namespace == Template.Types[tmpl.Items].Namespace
            known == numNSValues(NameSpaces, namespace)
        IN IF isRef /\ known >= minitems /\ tmpl.UniqueItems
           THEN \E n \in Draws(Rand, AskIntN(known - minitems + 1), IntN(known - minitems + 1)) :
                  LET added == adNSRef(NameSpaces, mem, namespace, Len(refs) + 1)
                  IN /\ Rand' = Drawn(Rand, AskIntN(known - minitems + 1), n)
                     /\ refs' = Append(refs, NewReference(namespace, minitems + n))
                     /\ NameSpaces' = added.ns
                     /\ mem' = added.mem
                     /\ Return(RefV(Len(refs) + 1), NoError)
           ELSE /\ NameSpaces' = IF isRef THEN getNamespace(NameSpaces, namespace)
                                 ELSE NameSpaces
                /\ UNCHANGED <<mem, refs>>
                /\ IF ForceMaxSize
                   THEN /\ Goto([f EXCEPT !.pc = "loop", !.minitems = minitems,
                                          !.maxitems = maxitems, !.length = maxitems])
                        /\ UNCHANGED Rand
                   ELSE \E n \in Draws(Rand, AskIntN(maxitems - minitems + 1),
                                       IntN(maxitems - minitems + 1)) :
                          /\ Rand' = Drawn(Rand, AskIntN(maxitems - minitems + 1), n)
                          /\ Goto([f EXCEPT !.pc = "loop", !.minitems = minitems,
                                            !.maxitems = maxitems, !.length = minitems + n])
     /\ UNCHANGED <<Template, minted, others>>
  \/ /\ Running("randomArray", "loop")
     /\ LET f == Top
            tmpl == Template.Types[f.typename]
        IN IF f.slot < f.length
           THEN Call([f EXCEPT !.pc = "loop_ret"],
                     ItemFrame(tmpl.Items, MaxAttempts, f.limits, childDepth(f.depth), tmpl.UniqueItems))
           ELSE IF Len(f.items) < f.minitems
                THEN Return(NilV, ErrNoValidValue)
                ELSE Return(ArrV(f.items, tmpl.UniqueItems), NoError)
     /\ UNCHANGED <<Template, Rand, NameSpaces, mem, refs, minted, others>>
  \/ /\ Running("randomArray", "loop_ret")
     /\ LET f == Top
        IN CASE ret.err # NoError /\ skipsSlot(ret.err) ->
                  Goto([f EXCEPT !.pc = "loop", !.slot = @ + 1])
             [] ret.err # NoError /\ ~skipsSlot(ret.err) -> Return(NilV, ret.err)
             [] OTHER ->
                  Goto([f EXCEPT !.pc = "loop", !.slot = @ + 1,
                                 !.items = Append(@, ret.val),
                                 !.hashes = IF Template.Types[f.typename].UniqueItems
                                            THEN hashesAppend(@, f.key, ret.val) ELSE @])
     /\ UNCHANGED <<Template, Rand, NameSpaces, mem, refs, minted, others>>

\* the activation of randomArray below generateItemUntil, with what the closure
\* cond wrote to key and how the instantiation of the item ended
ArrayBelow(key, err) ==
  LET a == stack[Len(stack) - 1]
  IN [a EXCEPT !.key = key,
               !.itemOK = IF err = NoError THEN @ + 1 ELSE @,
               !.itemAbandoned = IF IsBranchAbandoned(err) THEN @ + 1 ELSE @,
               !.itemFatal = IF err # NoError /\ ~IsBranchAbandoned(err) THEN @ + 1 ELSE @,
               !.lastItemErr = err]

generateItemUntil ==
  \/ /\ Running("generateItemUntil", "loop")
     /\ LET f == Top
        IN IF f.attempt < f.maxAttempts
           THEN Call([f EXCEPT !.pc = "loop_ret"],
                     NodeFrame(f.typename, f.limits, childDepth(f.depth), NameSpaces, mem))
           ELSE Return(NilV, ErrNoValidValue)
     /\ UNCHANGED <<Template, Rand, NameSpaces, mem, refs, minted, others>>
  \/ /\ Running("generateItemUntil", "loop_ret")
     /\ LET f == Top
            below == stack[Len(stack) - 1]
            n == Len(stack)
            key == IF f.cond /\ ret.err = NoError THEN itemHasher(refs, ret.val) ELSE below.key
        IN CASE ret.err # NoError ->
                  /\ stack' = [SubSeq(stack, 1, n - 1) EXCEPT ![n - 1] = ArrayBelow(key, ret.err)]
                  /\ ret' = Returned(f.fn, NilV, ret.err)
             [] ret.err = NoError /\ (~f.cond \/ notInItems(refs, below.hashes, key, ret.val)) ->
                  /\ stack' = [SubSeq(stack, 1, n - 1) EXCEPT ![n - 1] = ArrayBelow(key, ret.err)]
                  /\ ret' = Returned(f.fn, ret.val, NoError)
             [] OTHER ->
                  /\ stack' = [stack EXCEPT ![n - 1] = ArrayBelow(key, ret.err),
                                            ![n] = [f EXCEPT !.pc = "loop", !.attempt = @ + 1]]
                  /\ ret' = NoRet
     /\ UNCHANGED <<Template, Rand, NameSpaces, mem, refs, minted, others>>

\* a randomOneOf that keeps the error of the first candidate that was abandoned
firstAbandoned(abandoned, err) == IF abandoned = NoError THEN err ELSE abandoned

\* abandoned = err
lastAbandoned(abandoned, err) == err

\* what randomOneOf tried so far: the candidates, each with how its generateNode ended
Tried(f, typename, val, err) == Append(f.tried, [typename |-> typename, val |-> val, err |-> err])

randomOneOf ==
  \/ /\ Running("randomOneOf", "start")
     /\ LET f == Top
            oneof == Template.Types[f.typename].OneOf
        IN \E perm \in Draws(Rand, AskShuffle(Len(oneof)), Permutations1(Len(oneof))) :
             /\ Rand' = Drawn(Rand, AskShuffle(Len(oneof)), perm)
             /\ Template' = [Template EXCEPT !.Types[f.typename].OneOf = shuffle(oneof, perm)]
             /\ Goto([f EXCEPT !.pc = "loop", !.i = 1])
     /\ UNCHANGED <<NameSpaces, mem, refs, minted, others>>
  \/ /\ Running("randomOneOf", "loop")
     /\ LET f == Top
            shuffled == Template.Types[f.typename].OneOf
        IN IF f.i <= Len(shuffled)
           THEN Call([f EXCEPT !.pc = "loop_ret", !.typename1 = shuffled[f.i]],
                     NodeFrame(shuffled[f.i], f.limits, childDepth(f.depth), NameSpaces, mem))
           ELSE IF f.abandoned # NoError
                THEN Return(NilV, f.abandoned)
                ELSE Return(NilV, ErrNoneOf)
     /\ UNCHANGED <<Template, Rand, NameSpaces, mem, refs, minted, others>>
  \/ /\ Running("randomOneOf", "loop_ret")
     /\ LET f == Top
        IN IF IsBranchAbandoned(ret.err)
           THEN Goto([f EXCEPT !.pc = "loop", !.i = @ + 1,
                               !.abandoned = lastAbandoned(@, ret.err),
                               !.tried = Tried(f, f.typename1, ret.val, ret.err)])
           ELSE Return(ret.val, ret.err)
     /\ UNCHANGED <<Template, Rand, NameSpaces, mem, refs, minted, others>>

\* an extraProps that every optional property that was tried counts against
spentAlways(extraProps, err) == extraProps - 1

\* extraProps after an optional property was tried: extraProps-- is reached
\* only when generateNode returned no error
spent(extraProps, err) == IF err = NoError THEN extraProps - 1 ELSE extraProps

\* what generateObject tried so far: the optional properties it took out of
\* the pool, each with how its generateNode ended
TriedProperty(f, err) == Append(f.tried, [prop |-> f.prop, err |-> err])

\* the upper bound generateObject puts on the number of properties
maxPropsOf(node) ==
  IF node.MaxProperties < 0 THEN Len(node.Properties) ELSE node.MaxProperties

generateObject ==
  \/ /\ Running("generateObject", "required")
     /\ LET f == Top
            node == Template.Types[f.typename]
            minProps == max(node.MinProperties, Cardinality(DOMAIN f.properties))
            maxProps == maxPropsOf(node)
            deficit == minProps - Cardinality(DOMAIN f.properties)
        IN IF f.i <= Len(f.required)
           THEN /\ Call([f EXCEPT !.pc = "required_ret", !.prop = f.required[f.i]],
                        NodeFrame(f.required[f.i].Type,
                                  Descend(f.limits, f.required[f.i].Name),
                                  childDepth(f.depth), NameSpaces, mem))
                /\ UNCHANGED Rand
           ELSE IF maxProps > minProps
                THEN \E n \in Draws(Rand, AskIntN(maxProps - minProps + 1),
                                    IntN(maxProps - minProps + 1)) :
                       /\ Rand' = Drawn(Rand, AskIntN(maxProps - minProps + 1), n)
                       /\ Goto([f EXCEPT !.pc = "optional", !.minProps = minProps,
                                         !.maxProps = maxProps, !.extraProps = deficit + n,
                                         !.quota = deficit + n])
                ELSE /\ Goto([f EXCEPT !.pc = "optional", !.minProps = minProps,
                                       !.maxProps = maxProps, !.extraProps = deficit,
                                       !.quota = deficit])
                     /\ UNCHANGED Rand
     /\ UNCHANGED <<Template, NameSpaces, mem, refs, minted, others>>
  \/ /\ Running("generateObject", "required_ret")
     /\ LET f == Top
        IN IF ret.err # NoError
           THEN Return(NilV, ret.err)
           ELSE Goto([f EXCEPT !.pc = "required", !.i = @ + 1,
                               !.properties = Put(@, f.prop.Name, ret.val)])
     /\ UNCHANGED <<Template, Rand, NameSpaces, mem, refs, minted, others>>
  \/ /\ Running("generateObject", "optional")
     /\ LET f == Top
        IN IF f.extraProps > 0 /\ Len(f.optional) > 0
           THEN \E i \in Draws(Rand, AskIntN(Len(f.optional)), IntN(Len(f.optional))) :
                  /\ Rand' = Drawn(Rand, AskIntN(Len(f.optional)), i)
                  /\ Call([f EXCEPT !.pc = "optional_ret", !.prop = f.optional[i + 1],
                                    !.optional = Delete(@, i + 1)],
                          NodeFrame(f.optional[i + 1].Type,
                                    Descend(f.limits, f.optional[i + 1].Name),
                                    childDepth(f.depth), NameSpaces, mem))
           ELSE /\ UNCHANGED Rand
                /\ IF Cardinality(DOMAIN f.properties) < f.minProps
                   THEN IF f.branchAbandoned # NoError
                        THEN Return(NilV, f.branchAbandoned)
                        ELSE Return(NilV, ErrTooFewProperties)
                   ELSE Return(ObjV(f.properties), NoError)
     /\ UNCHANGED <<Template, NameSpaces, mem, refs, minted, others>>
  \/ /\ Running("generateObject", "optional_ret")
     /\ LET f == Top
        IN CASE IsBranchAbandoned(ret.err) ->
                  Goto([f EXCEPT !.pc = "optional", !.branchAbandoned = ret.err,
                                 !.extraProps = spent(@, ret.err),
                                 !.tried = TriedProperty(f, ret.err)])
             [] ret.err # NoError /\ ~IsBranchAbandoned(ret.err) -> Return(NilV, ret.err)
             [] OTHER ->
                  Goto([f EXCEPT !.pc = "optional", !.extraProps = spent(@, ret.err),
                                 !.properties = Put(@, f.prop.Name, ret.val),
                                 !.tried = TriedProperty(f, ret.err)])
     /\ UNCHANGED <<Template, Rand, NameSpaces, mem, refs, minted, others>>

-----------------------------------------------------------------------------
(* Generate and the fixup pass *)

\* reference.MarshalJSON inside json.Marshal of the document: what is written
\* for the tree v, h being the heap of references
RECURSIVE Marshal(_, _)
Marshal(h, v) ==
  CASE v.tag = "ref" ->
         IF h[v.ptr].Length < 0
         THEN IF Len(h[v.ptr].Values) > 0 THEN StrV(h[v.ptr].Values[1])
              ELSE [tag |-> "panic"]
         ELSE IF h[v.ptr].isNil THEN NilV
              ELSE ArrV([i \in 1..Len(h[v.ptr].Values) |-> StrV(h[v.ptr].Values[i])], TRUE)
    [] v.tag = "array" -> ArrV([i \in 1..Len(v.items) |-> Marshal(h, v.items[i])], v.unique)
    [] v.tag = "object" -> ObjV([k \in DOMAIN v.props |-> Marshal(h, v.props[k])])
    [] v.tag = "string" -> StrV(v.s)
    [] OTHER -> v

\* the references that occur in the tree v
RECURSIVE RefsIn(_)
RefsIn(v) ==
  CASE v.tag = "ref" -> {v.ptr}
    [] v.tag = "array" -> UNION {RefsIn(v.items[i]) : i \in DOMAIN v.items}
    [] v.tag = "object" -> UNION {RefsIn(v.props[k]) : k \in DOMAIN v.props}
    [] OTHER -> {}

\* the identifiers that occur in the tree v, each with its namespace
RECURSIVE IDsIn(_)
IDsIn(v) ==
  CASE v.tag = "string" -> IF "ns" \in DOMAIN v THEN {<<v.ns, v.s>>} ELSE {}
    [] v.tag = "array" -> UNION {IDsIn(v.items[i]) : i \in DOMAIN v.items}
    [] v.tag = "object" -> UNION {IDsIn(v.props[k]) : k \in DOMAIN v.props}
    [] OTHER -> {}

NoFix == [order |-> <<>>, n |-> 0, r |-> 0]

\* what a Generate() call returned: the tree, the error, the JSON written for
\* the tree and the identifiers the call generated
Result(tree, err, h, ids) ==
  [doc |-> tree, err |-> err, json |-> Marshal(h, tree), minted |-> ids,
   resolved |-> {[Namespace |-> h[p].Namespace, Length |-> h[p].Length,
                  Values |-> h[p].Values] : p \in RefsIn(tree)}]

\* Generate() up to the call of the root generateNode
Generate ==
  /\ phase = "idle"
  /\ Len(results) < MaxCalls
  /\ LedgerSize(NameSpaces) <= MaxLedger
  /\ Rand.mode = "record" => results = <<>>
  /\ phase' = "generate"
  /\ stack' = <<NodeFrame(Template.Root, ArrayLimits(Limits), RootDepth, NameSpaces, mem)>>
  /\ ret' = NoRet
  /\ minted' = {}
  /\ doc' = NilV
  /\ UNCHANGED <<conf, Template, Rand, NameSpaces, mem, refs, fix, results, reVars, auxVars>>

\* Generate() after the root generateNode returned: return the error or go on
\* to fixupReferences, whose range over the map takes the namespaces in any order
GenerateNodeReturned ==
  /\ phase = "generate"
  /\ stack = <<>>
  /\ \/ /\ ret.err # NoError
        /\ results' = Append(results, Result(NilV, ret.err, refs, minted))
        /\ phase' = "idle"
        /\ UNCHANGED <<doc, fix>>
     \/ /\ ret.err = NoError
        /\ doc' = ret.val
        /\ phase' = "fixup"
        /\ \E order \in Orders(DOMAIN NameSpaces) : fix' = [order |-> order, n |-> 1, r |-> 0]
        /\ UNCHANGED results
  /\ UNCHANGED <<conf, Template, Rand, NameSpaces, mem, refs, stack, ret, minted, reVars, auxVars>>

\* the reference p after fixupReferences set its Values
Resolved(h, p, values, isNil) ==
  [h EXCEPT ![p].Values = values, ![p].isNil = isNil, ![p].fixups = Min(@ + 1, MaxCalls + 1)]

fixupReferences ==
  /\ phase = "fixup"
  /\ \/ /\ fix.n > Len(fix.order)
        /\ results' = Append(results, Result(doc, NoError, refs, minted))
        /\ phase' = "idle"
        /\ fix' = NoFix
        /\ UNCHANGED <<Rand, refs>>
     \/ /\ fix.n <= Len(fix.order)
        /\ LET name == fix.order[fix.n]
               Values == ValuesOf(NameSpaces, mem, name)
               Refs == RefsOf(NameSpaces, mem, name)
           IN \/ /\ fix.r = 0
                 /\ Len(Values) = 0 /\ Len(Refs) > 0
                 /\ results' = Append(results, Result(NilV, ErrFixupNoIDs(name), refs, minted))
                 /\ phase' = "idle"
                 /\ fix' = NoFix
                 /\ UNCHANGED <<Rand, refs>>
              \/ /\ fix.r = 0
                 /\ ~(Len(Values) = 0 /\ Len(Refs) > 0)
                 /\ fix' = [fix EXCEPT !.r = 1]
                 /\ UNCHANGED <<Rand, refs, results, phase>>
              \/ /\ fix.r > Len(Refs)
                 /\ fix' = [fix EXCEPT !.n = @ + 1, !.r = 0]
                 /\ UNCHANGED <<Rand, refs, results, phase>>
              \/ /\ fix.r >= 1 /\ fix.r <= Len(Refs)
                 /\ refs[Refs[fix.r]].Length > Len(Values)
                 /\ \E perm \in Draws(Rand, AskPerm(Len(Values)), Permutations1(Len(Values))) :
                      Rand' = Drawn(Rand, AskPerm(Len(Values)), perm)
                 /\ results' = Append(results, Result(NilV, PanicIndex, refs, minted))
                 /\ phase' = "idle"
                 /\ fix' = NoFix
                 /\ UNCHANGED refs
              \/ /\ fix.r >= 1 /\ fix.r <= Len(Refs)
                 /\ refs[Refs[fix.r]].Length <= Len(Values)
                 /\ LET ref == Refs[fix.r]
                    IN CASE refs[ref].Length < 0 ->
                              \E i \in Draws(Rand, AskIntN(Len(Values)), IntN(Len(Values))) :
                                /\ Rand' = Drawn(Rand, AskIntN(Len(Values)), i)
                                /\ refs' = Resolved(refs, ref, <<choose(Values, i)>>, FALSE)
                         [] refs[ref].Length = 0 ->
                              /\ refs' = Resolved(refs, ref, <<>>, TRUE)
                              /\ UNCHANGED Rand
                         [] OTHER ->
                              \E perm \in Draws(Rand, AskPerm(Len(Values)),
                                                Permutations1(Len(Values))) :
                                /\ Rand' = Drawn(Rand, AskPerm(Len(Values)), perm)
                                /\ refs' = Resolved(refs, ref,
                                                    chooseK(refs[ref].Length, Values, perm), FALSE)
                 /\ fix' = [fix EXCEPT !.r = @ + 1]
                 /\ UNCHANGED <<results, phase>>
  /\ UNCHANGED <<conf, Template, NameSpaces, mem, stack, ret, doc, minted, reVars, auxVars>>

-----------------------------------------------------------------------------
(* The pattern sampler.  A regular expression is the tree syntax.Parse gives, *)
(* a string is a sequence of runes (code points).                            *)

Regexp(op, sub, rune, lo, hi) ==
  [Op |-> op, Sub |-> sub, Rune |-> rune, Min |-> lo, Max |-> hi]

Literal(rune) == Regexp("OpLiteral", <<>>, rune, 0, 0)

\* a character class; rune holds the bounds of its ranges, two for each
CharClass(rune) == Regexp("OpCharClass", <<>>, rune, 0, 0)

AnyCharNotNL == Regexp("OpAnyCharNotNL", <<>>, <<>>, 0, 0)

BeginText == Regexp("OpBeginText", <<>>, <<>>, 0, 0)

EndText == Regexp("OpEndText", <<>>, <<>>, 0, 0)

EmptyMatch == Regexp("OpEmptyMatch", <<>>, <<>>, 0, 0)

WordBoundary == Regexp("OpWordBoundary", <<>>, <<>>, 0, 0)

NoWordBoundary == Regexp("OpNoWordBoundary", <<>>, <<>>, 0, 0)

Concat(sub) == Regexp("OpConcat", sub, <<>>, 0, 0)

Alternate(sub) == Regexp("OpAlternate", sub, <<>>, 0, 0)

Capture(sub) == Regexp("OpCapture", <<sub>>, <<>>, 0, 0)

Star(sub) == Regexp("OpStar", <<sub>>, <<>>, 0, 0)

Plus(sub) == Regexp("OpPlus", <<sub>>, <<>>, 0, 0)

Quest(sub) == Regexp("OpQuest", <<sub>>, <<>>, 0, 0)

Repeat(sub, lo, hi) == Regexp("OpRepeat", <<sub>>, <<>>, lo, hi)

\* the most repetitions OpPlus and OpStar are sampled with
MaxRepeat == 10

\* what chooseRange adds to low when the expression gives no upper bound
RepeatExtra == 10

\* the bounds of the range OpAnyCharNotNL is sampled from: ' ' and '\x7e'
AnyCharLow == 32

AnyCharHigh == 126

\* the rune "\n"
NewLine == 10

\* the number of runes in the ranges of a character class
RECURSIVE classCount(_)
classCount(runes) ==
  IF Len(runes) < 2 THEN 0
  ELSE (runes[2] - runes[1] + 1) + classCount(SubSeq(runes, 3, Len(runes)))

\* a chooseCharClass that returns the rune after the chosen one
chooseNextRune(runes, choice) == runes[1] + choice + 1

\* chooseCharClass, given the choice rand.IntN(count) made
RECURSIVE chooseCharClass(_, _)
chooseCharClass(runes, choice) ==
  IF Len(runes) < 2 THEN 0
  ELSE IF choice < runes[2] - runes[1] + 1 THEN runes[1] + choice
  ELSE chooseCharClass(SubSeq(runes, 3, Len(runes)), choice - (runes[2] - runes[1] + 1))

\* the counts chooseRange(low, high) can return
chooseRange(low, high) ==
  LET top == IF high < 0 THEN low + RepeatExtra ELSE high
  IN IF top - low > 0 THEN {low + n : n \in IntN(top - low + 1)} ELSE {low + (top - low)}

\* the strings made of one string of each set of the sequence, in order
RECURSIVE Product(_)
Product(sets) ==
  IF sets = <<>> THEN {<<>>}
  ELSE {h \o t : h \in Head(sets), t \in Product(Tail(sets))}

\* sampler.repeat: what count runs of a sampler that writes one of strs write
repeat(strs, count) == Product([i \in 1..count |-> strs])

\* sampler.sampleAstNode: the strings it can add to the buffer for ast
RECURSIVE sampleAstNode(_)
sampleAstNode(ast) ==
  CASE ast.Op = "OpAlternate" ->
         UNION {sampleAstNode(choose(ast.Sub, i)) : i \in IntN(Len(ast.Sub))}
    [] ast.Op = "OpAnyCharNotNL" ->
         {<<chooseCharClass(<<AnyCharLow, AnyCharHigh>>, i)>> :
            i \in IntN(classCount(<<AnyCharLow, AnyCharHigh>>))}
    [] ast.Op = "OpBeginText" -> {<<>>}
    [] ast.Op = "OpCapture" -> sampleAstNode(ast.Sub[1])
    [] ast.Op = "OpCharClass" ->
         {<<chooseCharClass(ast.Rune, i)>> : i \in IntN(classCount(ast.Rune))}
    [] ast.Op = "OpConcat" -> Product([i \in DOMAIN ast.Sub |-> sampleAstNode(ast.Sub[i])])
    [] ast.Op = "OpEmptyMatch" -> {<<>>}
    [] ast.Op = "OpEndText" -> {<<>>}
    [] ast.Op = "OpLiteral" -> {ast.Rune}
    [] ast.Op = "OpPlus" ->
         UNION {repeat(sampleAstNode(ast.Sub[1]), n) : n \in chooseRange(1, MaxRepeat)}
    [] ast.Op = "OpQuest" ->
         UNION {IF i > 0 THEN sampleAstNode(ast.Sub[1]) ELSE {<<>>} : i \in IntN(2)}
    [] ast.Op = "OpRepeat" ->
         UNION {repeat(sampleAstNode(ast.Sub[1]), n) : n \in chooseRange(ast.Min, ast.Max)}
    [] ast.Op = "OpStar" ->
         UNION {repeat(sampleAstNode(ast.Sub[1]), n) : n \in chooseRange(0, MaxRepeat)}
    [] OTHER -> {<<>>}

supportedOps ==
  {"OpAlternate", "OpAnyCharNotNL", "OpBeginText", "OpCapture", "OpCharClass", "OpConcat",
   "OpEmptyMatch", "OpEndText", "OpLiteral", "OpPlus", "OpQuest", "OpRepeat", "OpStar"}

\* a checkAstNode that records the operation of the node it is called on only
opsAtTop(ast) == {ast.Op}

\* the operations checkAstNode adds to ops, in ast and the nodes it goes down to
RECURSIVE opsVisited(_)
opsVisited(ast) ==
  {ast.Op} \cup
    CASE ast.Op \in {"OpAlternate", "OpConcat"} ->
           UNION {opsVisited(ast.Sub[i]) : i \in DOMAIN ast.Sub}
      [] ast.Op \in {"OpCapture", "OpPlus", "OpQuest", "OpRepeat", "OpStar"} ->
           opsVisited(ast.Sub[1])
      [] OTHER -> {}

\* checkAstNode: the operations seen, and the error of the node it is called
\* on (what the calls on the nodes below return is dropped)
checkAstNode(ast) ==
  [ops |-> opsVisited(ast),
   err |-> IF ast.Op = "OpCharClass" /\ Len(ast.Rune) = 0
           THEN "character class without valid matches" ELSE ""]

checkAst(ast) ==
  IF checkAstNode(ast).err # "" THEN checkAstNode(ast).err
  ELSE IF checkAstNode(ast).ops \ supportedOps # {} THEN "unsupported regexp operations"
  ELSE ""

\* whether a run of sampleAstNode on ast can come to chooseCharClass with a
\* class of no runes, where rand.IntN(0) panics
RECURSIVE panics(_)
panics(ast) ==
  CASE ast.Op = "OpCharClass" -> classCount(ast.Rune) = 0
    [] ast.Op \in {"OpAlternate", "OpConcat"} -> \E i \in DOMAIN ast.Sub : panics(ast.Sub[i])
    [] ast.Op \in {"OpCapture", "OpPlus", "OpQuest", "OpStar"} -> panics(ast.Sub[1])
    [] ast.Op = "OpRepeat" ->
         (\E n \in chooseRange(ast.Min, ast.Max) : n > 0) /\ panics(ast.Sub[1])
    [] OTHER -> FALSE

\* the nodes of the tree ast
RECURSIVE Nodes(_)
Nodes(ast) == {ast} \cup UNION {Nodes(ast.Sub[i]) : i \in DOMAIN ast.Sub}

\* whether the rune r is in the ranges of a character class
RECURSIVE inClass(_, _)
inClass(runes, r) ==
  /\ Len(runes) >= 2
  /\ \/ (runes[1] <= r /\ r <= runes[2])
     \/ inClass(SubSeq(runes, 3, Len(runes)), r)

\* regexp matching: the positions of s at which a match of ast that starts at
\* position i can end (positions count the runes before them)
RECURSIVE matchEnds(_, _, _), matchAll(_, _, _), matchSeq(_, _, _), matchTimes(_, _, _, _)
matchEnds(ast, s, i) ==
  CASE ast.Op = "OpLiteral" ->
         IF i + Len(ast.Rune) <= Len(s) /\ SubSeq(s, i + 1, i + Len(ast.Rune)) = ast.Rune
         THEN {i + Len(ast.Rune)} ELSE {}
    [] ast.Op = "OpCharClass" -> IF i < Len(s) /\ inClass(ast.Rune, s[i + 1]) THEN {i + 1} ELSE {}
    [] ast.Op = "OpAnyCharNotNL" -> IF i < Len(s) /\ s[i + 1] # NewLine THEN {i + 1} ELSE {}
    [] ast.Op = "OpBeginText" -> IF i = 0 THEN {i} ELSE {}
    [] ast.Op = "OpEndText" -> IF i = Len(s) THEN {i} ELSE {}
    [] ast.Op = "OpEmptyMatch" -> {i}
    [] ast.Op = "OpWordBoundary" -> {}
    [] ast.Op = "OpCapture" -> matchEnds(ast.Sub[1], s, i)
    [] ast.Op = "OpAlternate" -> UNION {matchEnds(ast.Sub[k], s, i) : k \in DOMAIN ast.Sub}
    [] ast.Op = "OpConcat" -> matchSeq(ast.Sub, s, {i})
    [] ast.Op = "OpQuest" -> {i} \cup matchEnds(ast.Sub[1], s, i)
    [] ast.Op = "OpStar" -> matchAll(ast.Sub[1], s, {i})
    [] ast.Op = "OpPlus" -> matchAll(ast.Sub[1], s, matchEnds(ast.Sub[1], s, i))
    [] ast.Op = "OpRepeat" ->
         IF ast.Max < 0 THEN matchAll(ast.Sub[1], s, matchTimes(ast.Sub[1], s, {i}, ast.Min))
         ELSE UNION {matchTimes(ast.Sub[1], s, {i}, n) : n \in ast.Min..ast.Max}
    [] OTHER -> {}

\* the ends of any number of matches of ast in a row, the first starting in from
matchAll(ast, s, from) ==
  LET more == from \cup UNION {matchEnds(ast, s, i) : i \in from}
  IN IF more = from THEN from ELSE matchAll(ast, s, more)

\* the ends of matches of the expressions of subs in a row
matchSeq(subs, s, from) ==
  IF subs = <<>> THEN from
  ELSE matchSeq(Tail(subs), s, UNION {matchEnds(Head(subs), s, i) : i \in from})

\* the ends of n matches of ast in a row
matchTimes(ast, s, from, n) ==
  IF n <= 0 THEN from
  ELSE matchTimes(ast, s, UNION {matchEnds(ast, s, i) : i \in from}, n - 1)

\* regexp.MatchString: s contains a match of the expression
MatchString(ast, s) == \E i \in 0..Len(s) : matchEnds(ast, s, i) # {}

\* the expression with its begin and end of text anchors taken for empty matches
RECURSIVE Unanchored(_)
Unanchored(ast) ==
  IF ast.Op \in {"OpBeginText", "OpEndText"} THEN EmptyMatch
  ELSE [ast EXCEPT !.Sub = [i \in DOMAIN ast.Sub |-> Unanchored(ast.Sub[i])]]

\* whether the expression has a begin or end of text anchor
RECURSIVE Anchored(_)
Anchored(ast) ==
  \/ ast.Op \in {"OpBeginText", "OpEndText"}
  \/ \E i \in DOMAIN ast.Sub : Anchored(ast.Sub[i])

\* the code points of the runes of the expressions below
Runes == [a |-> 97, b |-> 98, c |-> 99, d |-> 100, e |-> 101, f |-> 102,
          x |-> 120, y |-> 121, z |-> 122, zero |-> 48, one |-> 49]

\* the expressions compiled, each with the tree syntax.Parse gives for it
Expressions ==
  { [text |-> "", ast |-> EmptyMatch],
    [text |-> "a", ast |-> Literal(<<Runes.a>>)],
    [text |-> "a*", ast |-> Star(Literal(<<Runes.a>>))],
    [text |-> "(abc|def)",
     ast |-> Capture(Alternate(<<Literal(<<Runes.a, Runes.b, Runes.c>>), Literal(<<Runes.d, Runes.e, Runes.f>>)>>))],
    [text |-> "[0-1][ay]+",
     ast |-> Concat(<<CharClass(<<Runes.zero, Runes.one>>),
                      Plus(CharClass(<<Runes.a, Runes.a, Runes.y, Runes.y>>))>>)],
    [text |-> ".{1,2}", ast |-> Repeat(AnyCharNotNL, 1, 2)],
    [text |-> "x{2,}", ast |-> Repeat(Literal(<<Runes.x>>), 2, -1)],
    [text |-> "^xy?z$",
     ast |-> Concat(<<BeginText, Literal(<<Runes.x>>), Quest(Literal(<<Runes.y>>)), Literal(<<Runes.z>>),
                      EndText>>)],
    [text |-> "a^b", ast |-> Concat(<<Literal(<<Runes.a>>), BeginText, Literal(<<Runes.b>>)>>)],
    [text |-> "a*^b", ast |-> Concat(<<Star(Literal(<<Runes.a>>)), BeginText, Literal(<<Runes.b>>)>>)],
    [text |-> "a\\bx", ast |-> Concat(<<Literal(<<Runes.a>>), WordBoundary, Literal(<<Runes.x>>)>>)],
    [text |-> "a\\Bx", ast |-> Concat(<<Literal(<<Runes.a>>), NoWordBoundary, Literal(<<Runes.x>>)>>)],
    [text |-> "\\b", ast |-> WordBoundary],
    [text |-> "ab|\\B", ast |-> Alternate(<<Literal(<<Runes.a, Runes.b>>), NoWordBoundary>>)],
    [text |-> "(a\\b)+",
     ast |-> Plus(Capture(Concat(<<Literal(<<Runes.a>>), WordBoundary>>)))],
    [text |-> "(\\bx)?", ast |-> Quest(Capture(Concat(<<WordBoundary, Literal(<<Runes.x>>)>>)))],
    [text |-> "(x\\B){2}",
     ast |-> Repeat(Capture(Concat(<<Literal(<<Runes.x>>), NoWordBoundary>>)), 2, 2)],
    [text |-> "(a\\b)*", ast |-> Star(Capture(Concat(<<Literal(<<Runes.a>>), WordBoundary>>)))],
    [text |-> "[^\\x00-\\x{10FFFF}]", ast |-> CharClass(<<>>)],
    [text |-> "a[^\\x00-\\x{10FFFF}]", ast |-> Concat(<<Literal(<<Runes.a>>), CharClass(<<>>)>>)],
    [text |-> "ab|[^\\x00-\\x{10FFFF}]",
     ast |-> Alternate(<<Literal(<<Runes.a, Runes.b>>), CharClass(<<>>)>>)],
    [text |-> "([^\\x00-\\x{10FFFF}])", ast |-> Capture(CharClass(<<>>))],
    [text |-> "[^\\x00-\\x{10FFFF}]*", ast |-> Star(CharClass(<<>>))] }

-----------------------------------------------------------------------------
(* The templates and settings the generator is run with *)

Types(names, nodes) == [n \in Range(names) |-> nodes[CHOOSE i \in DOMAIN names : names[i] = n]]

Tmpl(root, names, nodes) == [Root |-> root, Types |-> Types(names, nodes)]

gid == TmplID("g")

hid == TmplID("h")

gref == TmplRef("g")

href == TmplRef("h")

xref == TmplRef("x")

\* an identifier and an optional reference to it
TmplIdRef ==
  Tmpl("doc", <<"doc", "gid", "gref">>,
       <<TmplObject(<<Property("id", "gid", TRUE), Property("r", "gref", FALSE)>>, -1, -1),
         gid, gref>>)

\* two namespaces, each with two identifiers and a reference
TmplTwoNS ==
  Tmpl("doc", <<"doc", "gids", "hids", "gid", "hid", "gref", "href">>,
       <<TmplObject(<<Property("a", "gids", TRUE), Property("b", "hids", TRUE),
                      Property("r", "gref", TRUE), Property("s", "href", TRUE)>>, -1, -1),
         TmplArray("gid", 2, 2, FALSE), TmplArray("hid", 2, 2, FALSE),
         gid, hid, gref, href>>)

\* an optional branch that generates an identifier and is then abandoned
TmplRollback ==
  Tmpl("doc", <<"doc", "pair", "gid", "hid", "gref", "xref">>,
       <<TmplObject(<<Property("id", "gid", TRUE), Property("a", "pair", FALSE),
                      Property("r", "gref", FALSE)>>, 2, -1),
         TmplObject(<<Property("k", "hid", TRUE), Property("id", "gid", TRUE),
                      Property("r", "xref", TRUE)>>, -1, -1),
         gid, hid, gref, xref>>)

\* recursion without an end: through a required property, an optional
\* property, the items of an array, and an alternative
TmplRecObject ==
  Tmpl("node", <<"node">>, <<TmplObject(<<Property("next", "node", TRUE)>>, -1, -1)>>)

TmplRecOptional ==
  Tmpl("node", <<"node">>, <<TmplObject(<<Property("next", "node", FALSE)>>, -1, -1)>>)

TmplRecArray ==
  Tmpl("list", <<"list">>, <<TmplArray("list", 1, 1, FALSE)>>)

TmplRecArray0 ==
  Tmpl("list", <<"list">>, <<TmplArray("list", 0, 1, FALSE)>>)

TmplRecOneOf ==
  Tmpl("alt", <<"alt">>, <<TmplOneOf(<<"alt">>)>>)

\* an array of distinct items that are references or strings
TmplUniqueAlt ==
  Tmpl("doc", <<"doc", "uarr", "alt", "gid", "gref", "str">>,
       <<TmplObject(<<Property("id", "gid", TRUE), Property("r", "gref", TRUE),
                      Property("a", "uarr", TRUE)>>, -1, -1),
         TmplArray("alt", 2, 2, TRUE), TmplOneOf(<<"gref", "str">>),
         gid, gref, TmplString(1, 1, <<>>)>>)

\* identifiers and an array of distinct references to them
TmplAggregate ==
  Tmpl("doc", <<"doc", "gids", "grefs", "gid", "gref">>,
       <<TmplObject(<<Property("a", "gids", TRUE), Property("r", "grefs", TRUE)>>, -1, -1),
         TmplArray("gid", 2, 2, FALSE), TmplArray("gref", 1, -1, TRUE),
         gid, gref>>)

\* an array of distinct references without a lower bound, and an identifier
\* that may or may not come after it
TmplEmptyRefs ==
  Tmpl("doc", <<"doc", "grefs", "gid", "gref">>,
       <<TmplObject(<<Property("r", "grefs", TRUE), Property("id", "gid", FALSE)>>, -1, -1),
         TmplArray("gref", -1, 2, TRUE), gid, gref>>)

\* an array of references that need not be distinct, with nothing to refer to
TmplPlainRefs ==
  Tmpl("doc", <<"doc", "grefs", "gref">>,
       <<TmplObject(<<Property("r", "grefs", FALSE)>>, -1, -1),
         TmplArray("gref", 1, 2, FALSE), gref>>)

\* more required properties than MaxProperties
TmplManyRequired ==
  Tmpl("doc", <<"doc", "one">>,
       <<TmplObject(<<Property("a", "one", TRUE), Property("b", "one", TRUE),
                      Property("c", "one", FALSE)>>, -1, 1),
         TmplString(-1, -1, <<<<"a">>>>)>>)

\* bounds on the number of properties, with optional ones that are abandoned
TmplBounds ==
  Tmpl("doc", <<"doc", "one", "xref">>,
       <<TmplObject(<<Property("a", "one", TRUE), Property("b", "one", FALSE),
                      Property("c", "one", FALSE), Property("r", "xref", FALSE)>>, 2, 3),
         TmplString(-1, -1, <<<<"a">>>>), xref>>)

\* a property of a type the template does not define
TmplUnknown ==
  Tmpl("doc", <<"doc", "one">>,
       <<TmplObject(<<Property("a", "one", TRUE), Property("b", "missing", FALSE)>>, -1, -1),
         TmplString(-1, -1, <<<<"a">>, <<"b">>>>)>>)

\* an array whose items are arrays that never find enough distinct items
TmplNested ==
  Tmpl("outer", <<"outer", "inner", "one">>,
       <<TmplArray("inner", 1, 1, FALSE), TmplArray("one", 2, 2, TRUE),
         TmplString(-1, -1, <<<<"a">>>>)>>)

\* an array of distinct identifiers
TmplUniqueIDs ==
  Tmpl("doc", <<"doc", "uids", "gid", "gref">>,
       <<TmplObject(<<Property("a", "uids", TRUE), Property("r", "gref", FALSE)>>, -1, -1),
         TmplArray("gid", 1, 2, TRUE), gid, gref>>)

\* an array whose length comes from the limits
TmplLimited ==
  Tmpl("doc", <<"doc", "strs", "str">>,
       <<TmplObject(<<Property("a", "strs", TRUE)>>, -1, -1),
         TmplArray("str", -1, -1, FALSE), TmplString(1, 1, <<>>)>>)

\* alternatives that are all abandoned, each with an error of its own
TmplAllAbandon ==
  Tmpl("alt", <<"alt", "xref", "yref">>, <<TmplOneOf(<<"xref", "yref">>), xref, TmplRef("y")>>)

\* alternatives of which one is abandoned, one fails and one gives a value
TmplAltFatal ==
  Tmpl("alt", <<"alt", "xref", "one">>,
       <<TmplOneOf(<<"xref", "missing", "one">>), xref, TmplString(-1, -1, <<<<"a">>>>)>>)

\* an alternation without candidates
TmplNoAlternatives == Tmpl("alt", <<"alt">>, <<TmplOneOf(<<>>)>>)

\* optional properties that are all abandoned, each with an error of its own
TmplOptionalAbandon ==
  Tmpl("doc", <<"doc", "one", "xref", "yref">>,
       <<TmplObject(<<Property("a", "one", TRUE), Property("r", "xref", FALSE),
                      Property("s", "yref", FALSE)>>, 2, -1),
         TmplString(-1, -1, <<<<"a">>>>), xref, TmplRef("y")>>)

\* two entries of the property list with the same name
TmplTwice ==
  Tmpl("doc", <<"doc", "one">>,
       <<TmplObject(<<Property("a", "one", FALSE), Property("a", "one", FALSE)>>, 2, -1),
         TmplString(-1, -1, <<<<"a">>>>)>>)

\* an unknown type below an alternation, an array slot and an optional property
TmplFatalDeep ==
  Tmpl("doc", <<"doc", "arr", "alt", "gid", "xref">>,
       <<TmplObject(<<Property("id", "gid", TRUE), Property("a", "arr", FALSE),
                      Property("b", "gid", FALSE)>>, -1, -1),
         TmplArray("alt", 1, 2, TRUE), TmplOneOf(<<"xref", "missing">>), gid, xref>>)

\* a placeholder for a whole array, and after it an optional branch that adds
\* an identifier and another such placeholder and is then abandoned
TmplAggregateRollback ==
  Tmpl("doc", <<"doc", "gids", "grefs", "inner", "gid", "hid", "gref", "xref">>,
       <<TmplObject(<<Property("a", "gids", TRUE), Property("r", "grefs", TRUE),
                      Property("b", "inner", FALSE)>>, -1, -1),
         TmplArray("gid", 2, 2, FALSE), TmplArray("gref", 2, -1, TRUE),
         TmplObject(<<Property("k", "hid", TRUE), Property("id", "gid", TRUE),
                      Property("r", "grefs", TRUE), Property("s", "xref", TRUE)>>, -1, -1),
         gid, hid, gref, xref>>)

\* two identifiers and an array of at most one distinct reference to them
TmplAggregateMax ==
  Tmpl("doc", <<"doc", "gids", "grefs", "gid", "gref">>,
       <<TmplObject(<<Property("a", "gids", TRUE), Property("r", "grefs", TRUE)>>, -1, -1),
         TmplArray("gid", 2, 2, FALSE), TmplArray("gref", 1, 1, TRUE),
         gid, gref>>)

LimitsA == [nil |-> FALSE,
            ArrayLength |-> <<[Length |-> 2, Paths |-> <<<<PathEntry("a", TRUE, FALSE)>>>>]>>]

Setting(tmpl, limits, sizeFactor, forceMaxSize) ==
  [Template |-> tmpl, Limits |-> limits, SizeFactor |-> sizeFactor,
   ForceMaxSize |-> forceMaxSize]

Plain(tmpl) == Setting(tmpl, NilLimits, <<1, 1>>, FALSE)

Settings ==
  {Plain(TmplIdRef), Plain(TmplTwoNS), Plain(TmplRollback), Plain(TmplRecObject),
   Plain(TmplRecOptional), Plain(TmplRecArray), Plain(TmplRecArray0), Plain(TmplRecOneOf),
   Plain(TmplUniqueAlt), Plain(TmplAggregate), Plain(TmplEmptyRefs), Plain(TmplPlainRefs),
   Plain(TmplManyRequired), Plain(TmplBounds), Plain(TmplUnknown), Plain(TmplUniqueIDs),
   Plain(TmplNested), Plain(TmplAllAbandon), Plain(TmplAltFatal), Plain(TmplNoAlternatives),
   Plain(TmplOptionalAbandon), Plain(TmplTwice), Plain(TmplFatalDeep),
   Plain(TmplAggregateRollback), Plain(TmplAggregateMax),
   Setting(TmplLimited, LimitsA, <<1, 1>>, FALSE),
   Setting(TmplLimited, LimitsA, <<3, 2>>, TRUE),
   Setting(TmplLimited, LimitsA, <<3, 4>>, TRUE)}

NoPattern == [text |-> "", ast |-> EmptyMatch, state |-> "none", err |-> ""]

\* NewGenerator(tmpl, limits, sizeFactor, forceMaxSize, rng)
NewGenerator(setting, rng) ==
  /\ input = setting
  /\ Template = setting.Template
  /\ Limits = setting.Limits
  /\ SizeFactor = setting.SizeFactor
  /\ ForceMaxSize = setting.ForceMaxSize
  /\ Rand = rng
  /\ NameSpaces = <<>>
  /\ mem = <<>>
  /\ refs = <<>>
  /\ stack = <<>>
  /\ ret = NoRet
  /\ phase = "idle"
  /\ doc = NilV
  /\ fix = NoFix
  /\ minted = {}
  /\ results = <<>>
  /\ FileCache = <<>>

\* nothing else runs beside the Generator
Idle ==
  /\ fs = <<>>
  /\ gens = <<>>
  /\ walk = <<>>
  /\ cli = <<>>

Init ==
  /\ \E setting \in Settings : NewGenerator(setting, FreeRand)
  /\ re = NoPattern
  /\ sample = <<>>
  /\ Idle

Next ==
  \/ Generate
  \/ generateNode
  \/ generateNodeDefer
  \/ InstantiateString
  \/ generateID
  \/ generateReference
  \/ generateObject
  \/ randomArray
  \/ generateItemUntil
  \/ randomOneOf
  \/ GenerateNodeReturned
  \/ fixupReferences

Spec == Init /\ [][Next]_vars

\* A second Generator is constructed from the same template and settings, with
\* a random source of the same seed as the first one's
NewGeneratorSameSeed ==
  /\ phase = "idle"
  /\ Rand.mode = "record"
  /\ Len(results) = 1
  /\ Template' = input.Template
  /\ Rand' = [mode |-> "replay", log |-> Rand.log, pos |-> 0, diverged |-> FALSE]
  /\ NameSpaces' = <<>>
  /\ mem' = <<>>
  /\ UNCHANGED <<conf, refs, stack, ret, phase, doc, fix, minted, results, reVars, auxVars>>

InitDet ==
  /\ \E setting \in Settings : NewGenerator(setting, SeededRand)
  /\ re = NoPattern
  /\ sample = <<>>
  /\ Idle

NextDet == Next \/ NewGeneratorSameSeed

\* two Generators with the same seed, each asked for one document
SpecDet == InitDet /\ [][NextDet]_vars

-----------------------------------------------------------------------------
(* Generators side by side.  Each has its own ledger, file cache and random  *)
(* source; all were given the same *Template.  A step is one access to the  *)
(* memory they share, the backing array of the OneOf list of the root type. *)

\* three alternatives, each a string with one enumerated value
TmplShared ==
  Tmpl("alt", <<"alt", "one", "two", "three">>,
       <<TmplOneOf(<<"one", "two", "three">>), TmplString(-1, -1, <<<<"a">>>>),
         TmplString(-1, -1, <<<<"b">>>>), TmplString(-1, -1, <<<<"c">>>>)>>)

\* a Generator that has not been asked for a document yet
NewActivation ==
  [pc |-> "idle", i |-> 0, j |-> 0, tj |-> "", ti |-> "", draws |-> <<>>,
   val |-> NilV, err |-> NoError]

\* the OneOf list of the root type of the template
RootOneOf(tmpl) == tmpl.Types[tmpl.Root].OneOf

besides == <<conf, Rand, NameSpaces, mem, refs, stack, ret, phase, doc, fix, minted, results,
             reVars, FileCache, fs, walk, cli>>

\* Generate() of Generator g up to shuffle in randomOneOf of the root type
GenerateBeside(g) ==
  /\ gens[g].pc = "idle"
  /\ Template.Types[Template.Root].kind = "oneof"
  /\ gens' = [gens EXCEPT ![g].pc = "shuffle", ![g].i = Len(RootOneOf(Template)) - 1]
  /\ UNCHANGED <<Template, besides>>

\* rand.Shuffle: for i from n-1 down to 1 it draws j from 0..i for swap(i, j)
shuffleDraw(g) ==
  /\ gens[g].pc = "shuffle"
  /\ IF gens[g].i > 0
     THEN \E j \in IntN(gens[g].i + 1) :
            gens' = [gens EXCEPT ![g].pc = "read j", ![g].j = j, ![g].draws = Append(@, j)]
     ELSE gens' = [gens EXCEPT ![g].pc = "range"]
  /\ UNCHANGED <<Template, besides>>

\* ts[i], ts[j] = ts[j], ts[i]: the two reads of the right-hand side
swapRead(g) ==
  /\ \/ /\ gens[g].pc = "read j"
        /\ gens' = [gens EXCEPT ![g].pc = "read i",
                                 ![g].tj = RootOneOf(Template)[gens[g].j + 1]]
     \/ /\ gens[g].pc = "read i"
        /\ gens' = [gens EXCEPT ![g].pc = "write i",
                                 ![g].ti = RootOneOf(Template)[gens[g].i + 1]]
  /\ UNCHANGED <<Template, besides>>

\* ts[i], ts[j] = ts[j], ts[i]: the two assignments
swapWrite(g) ==
  /\ \/ /\ gens[g].pc = "write i"
        /\ Template' = [Template EXCEPT !.Types[Template.Root].OneOf[gens[g].i + 1] = gens[g].tj]
        /\ gens' = [gens EXCEPT ![g].pc = "write j"]
     \/ /\ gens[g].pc = "write j"
        /\ Template' = [Template EXCEPT !.Types[Template.Root].OneOf[gens[g].j + 1] = gens[g].ti]
        /\ gens' = [gens EXCEPT ![g].pc = "shuffle", ![g].i = @ - 1]
  /\ UNCHANGED besides

\* the loop of randomOneOf over shuffled: it reads the first candidate, whose
\* generateNode gives one of its enumerated values, and returns that
rangeShuffled(g) ==
  /\ gens[g].pc = "range"
  /\ LET typename == RootOneOf(Template)[1]
         node == Template.Types[typename]
     IN \E n \in IntN(Len(node.Enum)) :
          gens' = [gens EXCEPT ![g].pc = "done", ![g].val = StrV(choose(node.Enum, n))]
  /\ UNCHANGED <<Template, besides>>

\* the swaps of rand.Shuffle on ts for the draws of j, i going down from n-1
RECURSIVE swaps(_, _, _)
swaps(ts, draws, i) ==
  IF draws = <<>> THEN ts
  ELSE swaps([ts EXCEPT ![i + 1] = ts[Head(draws) + 1], ![Head(draws) + 1] = ts[i + 1]],
             Tail(draws), i - 1)

InitBeside ==
  /\ NewGenerator(Plain(TmplShared), FreeRand)
  /\ gens = [g \in 1..NumGenerators |-> NewActivation]
  /\ re = NoPattern
  /\ sample = <<>>
  /\ fs = <<>>
  /\ walk = <<>>
  /\ cli = <<>>

NextBeside ==
  \/ \E g \in DOMAIN gens : GenerateBeside(g)
  \/ \E g \in DOMAIN gens : shuffleDraw(g)
  \/ \E g \in DOMAIN gens : swapRead(g)
  \/ \E g \in DOMAIN gens : swapWrite(g)
  \/ \E g \in DOMAIN gens : rangeShuffled(g)

\* Generators that run Generate() in goroutines of their own
SpecBeside == InitBeside /\ [][NextBeside]_vars

-----------------------------------------------------------------------------
(* Building a limit tree and descending through it *)

\* the texts of the paths of the limits files
PathTexts ==
  [root |-> <<"/">>,
   a |-> <<"/", "a">>,
   ab |-> <<"/", "a", "/", "b", "[]">>,
   abStar |-> <<"/", "a", "(", "/", "b", "[]", ")", "*">>,
   bStarC |-> <<"(", "/", "b", ")", "*", "/", "c">>]

LengthPaths(length, texts) ==
  [Length |-> length, Paths |-> [k \in DOMAIN texts |-> UnmarshalPath(texts[k])]]

\* the limits files: none, one without rules, and files with rules
LimitsFiles ==
  {NilLimits,
   [nil |-> FALSE, ArrayLength |-> <<>>],
   [nil |-> FALSE, ArrayLength |-> <<LengthPaths(2, <<PathTexts.ab>>)>>],
   [nil |-> FALSE, ArrayLength |-> <<LengthPaths(3, <<PathTexts.abStar>>)>>],
   [nil |-> FALSE, ArrayLength |-> <<LengthPaths(5, <<PathTexts.bStarC>>)>>],
   [nil |-> FALSE, ArrayLength |-> <<LengthPaths(1, <<PathTexts.root, PathTexts.a>>)>>],
   [nil |-> FALSE,
    ArrayLength |-> <<LengthPaths(2, <<PathTexts.a, PathTexts.ab>>), LengthPaths(4, <<PathTexts.ab>>)>>]}

\* the names of the segments a descent takes
SegmentNames == {"a", "b", "c"}

NewWalk == [state |-> "new", tree |-> NilNode, node |-> NilNode, trail |-> <<>>, limit |-> 0]

\* gen.Limits.ArrayLimits(), the tree Generate() hands to the root
ArrayLimitsBuilt ==
  /\ walk.state = "new"
  /\ walk' = [walk EXCEPT !.state = "at", !.tree = ArrayLimits(Limits),
                          !.node = ArrayLimits(Limits)]
  /\ UNCHANGED <<conf, Template, Rand, NameSpaces, mem, refs, stack, ret, phase, doc, fix,
                 minted, results, reVars, FileCache, fs, gens, cli>>

\* limits.Descend(name), as generateObject does for each property
DescendCalled ==
  /\ walk.state \in {"at", "read"}
  /\ Len(walk.trail) < MaxWalk
  /\ \E name \in SegmentNames :
       walk' = [walk EXCEPT !.state = "at", !.node = Descend(walk.node, name),
                            !.trail = Append(@, name)]
  /\ UNCHANGED <<conf, Template, Rand, NameSpaces, mem, refs, stack, ret, phase, doc, fix,
                 minted, results, reVars, FileCache, fs, gens, cli>>

\* limits.GetLimit(), as maxLimit does
GetLimitCalled ==
  /\ walk.state = "at"
  /\ walk' = [walk EXCEPT !.state = "read", !.limit = GetLimit(walk.node)]
  /\ UNCHANGED <<conf, Template, Rand, NameSpaces, mem, refs, stack, ret, phase, doc, fix,
                 minted, results, reVars, FileCache, fs, gens, cli>>

InitLimits ==
  /\ \E limits \in LimitsFiles :
       NewGenerator(Setting(TmplLimited, limits, <<1, 1>>, FALSE), FreeRand)
  /\ walk = NewWalk
  /\ re = NoPattern
  /\ sample = <<>>
  /\ fs = <<>>
  /\ gens = <<>>
  /\ cli = <<>>

NextLimits == ArrayLimitsBuilt \/ DescendCalled \/ GetLimitCalled

SpecLimits == InitLimits /\ [][NextLimits]_vars

-----------------------------------------------------------------------------
(* Source texts.  A file is missing, unreadable, binary (not valid UTF-8) or *)
(* a text, the sequence of its runes.                                        *)

Paths == {"p", "q"}

Files ==
  {[kind |-> "missing"], [kind |-> "unreadable"], [kind |-> "binary"],
   [kind |-> "text", runes |-> <<"x">>], [kind |-> "text", runes |-> <<"x", "y", "z">>]}

\* the TmplBook nodes book is called for
BookNodes == {TmplBook(b[1], b[2], path) : b \in {<<-1, -1>>, <<0, 3>>, <<1, 1>>}, path \in Paths}

\* a book that does not keep what it read
notCached(cache, path, content) == cache

\* gen.FileCache[path] = content
cached(cache, path, content) == Put(cache, path, content)

\* trimmed[:length] of the runes of content, length cut down to their number
trimmed(content, length) == SubSeq(content, 1, Min(length, Len(content)))

bookFrame == <<conf, Template, Rand, NameSpaces, mem, refs, stack, phase, doc, fix, minted,
               results, reVars, gens, walk, cli>>

\* what book did last: the path, the length drawn, whether the cache held the path
Called(f, path, length, hit) ==
  [f EXCEPT !.calls = @ + 1, !.last = [path |-> path, length |-> length, hit |-> hit]]

\* gen.book(node.MinLength, node.MaxLength, node.Path)
book ==
  /\ fs.calls < MaxBooks
  /\ ret.err # PanicIntN
  /\ \E node \in BookNodes :
       LET path == node.Path
           minlength == IF node.MinLength < 0 THEN 0 ELSE node.MinLength
           maxlength == IF node.MaxLength < 0 THEN minlength + DefaultExtraLen ELSE node.MaxLength
           hit == path \in DOMAIN FileCache
           file == fs.files[path]
           opened == [fs EXCEPT !.opens[path] = @ + 1]
       IN IF maxlength - minlength <= 0
          THEN /\ ret' = Returned("book", NilV, PanicIntN)
               /\ fs' = Called(fs, path, 0, hit)
               /\ UNCHANGED FileCache
          ELSE \E n \in IntN(maxlength - minlength) :
                 LET length == minlength + n
                 IN CASE hit ->
                           /\ ret' = Returned("book", StrV(trimmed(FileCache[path], length)), NoError)
                           /\ fs' = Called(fs, path, length, hit)
                           /\ UNCHANGED FileCache
                      [] ~hit /\ file.kind = "missing" ->
                           /\ ret' = Returned("book", StrV(<<>>), ErrFile("open", path))
                           /\ fs' = Called(fs, path, length, hit)
                           /\ UNCHANGED FileCache
                      [] ~hit /\ file.kind = "unreadable" ->
                           /\ ret' = Returned("book", StrV(<<>>), ErrFile("read", path))
                           /\ fs' = Called(opened, path, length, hit)
                           /\ UNCHANGED FileCache
                      [] ~hit /\ file.kind = "binary" ->
                           /\ ret' = Returned("book", StrV(<<>>), ErrInvalidString)
                           /\ fs' = Called(opened, path, length, hit)
                           /\ UNCHANGED FileCache
                      [] OTHER ->
                           /\ ret' = Returned("book", StrV(trimmed(file.runes, length)), NoError)
                           /\ fs' = Called([opened EXCEPT !.read[path] = TRUE], path, length, hit)
                           /\ FileCache' = cached(FileCache, path, file.runes)
  /\ UNCHANGED bookFrame

\* the file at a path is replaced, removed or made unreadable by someone else
fileReplaced ==
  /\ \E path \in Paths, file \in Files :
       /\ file # fs.files[path]
       /\ fs' = [fs EXCEPT !.files[path] = file]
  /\ UNCHANGED <<FileCache, ret, bookFrame>>

InitBook ==
  /\ NewGenerator(Plain(TmplIdRef), FreeRand)
  /\ \E files \in [Paths -> Files] :
       fs = [files |-> files, opens |-> [path \in Paths |-> 0], read |-> [path \in Paths |-> FALSE],
             calls |-> 0, last |-> [path |-> "", length |-> 0, hit |-> FALSE]]
  /\ re = NoPattern
  /\ sample = <<>>
  /\ gens = <<>>
  /\ walk = <<>>
  /\ cli = <<>>

NextBook == book \/ fileReplaced

SpecBook == InitBook /\ [][NextBook]_vars

-----------------------------------------------------------------------------
(* The command: generateToFile.  A file name is the sequence of its          *)
(* characters.                                                               *)

\* filepath.Base
RECURSIVE Base(_)
Base(path) ==
  IF path = <<>> THEN <<".">>
  ELSE IF path[Len(path)] = "/"
       THEN IF Len(path) = 1 THEN <<"/">> ELSE Base(SubSeq(path, 1, Len(path) - 1))
       ELSE LET slashes == {k \in DOMAIN path : path[k] = "/"}
                last == CHOOSE k \in slashes : \A h \in slashes : h <= k
            IN IF slashes = {} THEN path ELSE SubSeq(path, last + 1, Len(path))

ErrNoJSONSuffix(filename) == [msg |-> "filename doesn't have .json suffix", wraps |-> "", arg |-> ""]

\* a trackingIDFromFilename that takes the file name for the ID
idIsFilename(filename) == [id |-> filename, err |-> NoError]

trackingIDFromFilename(filename) ==
  LET cut == CutSuffix(Base(filename), <<".", "j", "s", "o", "n">>)
  IN IF ~cut.found THEN [id |-> <<>>, err |-> ErrNoJSONSuffix(filename)]
     ELSE [id |-> cut.before, err |-> NoError]

ErrSetValue(msg) == [msg |-> msg, wraps |-> "", arg |-> ""]

\* the loop and the assignment of setValue, m being a map
RECURSIVE setIn(_, _, _)
setIn(m, components, value) ==
  IF Len(components) = 1 THEN [doc |-> ObjV(Put(m.props, components[1], value)), err |-> NoError]
  ELSE LET key == components[1]
       IN IF key \notin DOMAIN m.props THEN [doc |-> m, err |-> ErrSetValue("path not in map")]
          ELSE IF m.props[key].tag # "object"
               THEN [doc |-> m, err |-> ErrSetValue("path does not refer to a map")]
               ELSE LET below == setIn(m.props[key], Tail(components), value)
                    IN IF below.err # NoError THEN [doc |-> m, err |-> below.err]
                       ELSE [doc |-> ObjV(Put(m.props, key, below.doc)), err |-> NoError]

\* setValue(doc, path, value), path given as its components
setValue(csaf, components, value) ==
  IF csaf.tag # "object" THEN [doc |-> csaf, err |-> ErrSetValue("expected map[string]any")]
  ELSE setIn(csaf, components, value)

\* the error of os.Create, and that of Encode or Close
ErrCreate == [msg |-> "create", wraps |-> "", arg |-> ""]

ErrWrite == [msg |-> "write", wraps |-> "", arg |-> ""]

\* the characters of the file names below
OutputFiles ==
  [stdout |-> <<>>,
   out |-> <<"o", "u", "t", ".", "j", "s", "o", "n">>,
   dirOut |-> <<"d", "/", "o", "u", "t", ".", "j", "s", "o", "n">>,
   txt |-> <<"o", "u", "t", ".", "t", "x", "t">>,
   bak |-> <<"o", ".", "j", "s", "o", "n", ".", "b">>,
   dotJSON |-> <<"d", "/", ".", "j", "s", "o", "n">>,
   json |-> <<"j", "s", "o", "n">>,
   inJSONDir |-> <<"d", ".", "j", "s", "o", "n", "/", "o">>,
   slash |-> <<"/">>]

\* what Generate() returns to the command: its error, or a tree
Documents ==
  {[err |-> ErrTooFewProperties, doc |-> NilV]} \cup
  {[err |-> NoError, doc |-> d] :
     d \in {ObjV([document |-> ObjV([tracking |-> ObjV([id |-> StrV(<<"a">>)])])]),
            ObjV([document |-> ObjV([tracking |-> ObjV([version |-> StrV(<<"b">>)])])]),
            ObjV([document |-> ObjV([title |-> StrV(<<"a">>)])]),
            ObjV([document |-> ObjV([tracking |-> StrV(<<"a">>)])]),
            ObjV([document |-> StrV(<<"a">>)]),
            ObjV([vulnerabilities |-> ArrV(<<>>, FALSE)]),
            StrV(<<"a">>)}}

cliFrame == <<conf, Template, Rand, NameSpaces, mem, refs, stack, ret, phase, doc, fix, minted,
              results, reVars, FileCache, fs, gens, walk>>

\* the file a failed Encode leaves behind
Truncated == [tag |-> "truncated"]

\* writeJSON, given whether os.Create and then Encode and Close succeed
writeJSON(c, csaf, outputfile, createOK, writeOK) ==
  IF outputfile = <<>>
  THEN [c EXCEPT !.stdout = Append(@, csaf), !.err = NoError]
  ELSE IF ~createOK THEN [c EXCEPT !.err = ErrCreate]
  ELSE IF ~writeOK THEN [c EXCEPT !.created = Put(@, outputfile, Truncated), !.err = ErrWrite]
  ELSE [c EXCEPT !.created = Put(@, outputfile, csaf), !.err = NoError]

\* generateToFile(generator, outputfile, formatted), called by generate once
\* for each output until one call fails
generateToFile ==
  /\ cli.n < cli.numOutputs
  /\ cli.err = NoError
  /\ \E name \in DOMAIN OutputFiles, generated \in Documents, createOK, writeOK \in BOOLEAN :
       LET outputfile == OutputFiles[name]
           c == [cli EXCEPT !.n = @ + 1, !.outputfile = outputfile, !.generated = generated]
           tracking == trackingIDFromFilename(outputfile)
           set == setValue(generated.doc, <<"document", "tracking", "id">>, StrV(tracking.id))
       IN /\ cli.numOutputs > 1 => outputfile # <<>>
          /\ cli' = IF generated.err # NoError THEN [c EXCEPT !.err = generated.err]
                    ELSE IF outputfile = <<>>
                         THEN writeJSON(c, generated.doc, outputfile, createOK, writeOK)
                    ELSE IF tracking.err # NoError THEN [c EXCEPT !.err = tracking.err]
                    ELSE IF set.err # NoError THEN [c EXCEPT !.err = set.err]
                    ELSE writeJSON(c, set.doc, outputfile, createOK, writeOK)
  /\ UNCHANGED cliFrame

InitCli ==
  /\ NewGenerator(Plain(TmplIdRef), FreeRand)
  /\ \E numOutputs \in 1..MaxOutputs :
       cli = [numOutputs |-> numOutputs, n |-> 0, outputfile |-> <<>>,
              generated |-> [err |-> NoError, doc |-> NilV], err |-> NoError,
              created |-> <<>>, stdout |-> <<>>]
  /\ re = NoPattern
  /\ sample = <<>>
  /\ fs = <<>>
  /\ gens = <<>>
  /\ walk = <<>>

NextCli == generateToFile

SpecCli == InitCli /\ [][NextCli]_vars

-----------------------------------------------------------------------------
(* Compiling and sampling a pattern *)

\* CompileRegexp / Pattern.UnmarshalText, after syntax.Parse
CompileRegexp ==
  /\ re.state = "parsed"
  /\ re' = [re EXCEPT !.state = IF checkAst(re.ast) = "" THEN "compiled" ELSE "rejected",
                      !.err = checkAst(re.ast)]
  /\ UNCHANGED <<conf, Template, Rand, NameSpaces, mem, refs, stack, ret, phase, doc, fix,
                 minted, results, sample, auxVars>>

\* Pattern.Sample
Sample ==
  /\ re.state = "compiled"
  /\ \/ /\ sample' \in sampleAstNode(re.ast)
        /\ re' = [re EXCEPT !.state = "sampled"]
     \/ /\ panics(re.ast)
        /\ re' = [re EXCEPT !.state = "panicked"]
        /\ UNCHANGED sample
  /\ UNCHANGED <<conf, Template, Rand, NameSpaces, mem, refs, stack, ret, phase, doc, fix,
                 minted, results, auxVars>>

InitRe ==
  /\ NewGenerator(Plain(TmplIdRef), FreeRand)
  /\ \E expr \in Expressions :
       re = [text |-> expr.text, ast |-> expr.ast, state |-> "parsed", err |-> ""]
  /\ sample = <<>>
  /\ Idle

NextRe == CompileRegexp \/ Sample

SpecRe == InitRe /\ [][NextRe]_vars

-----------------------------------------------------------------------------
(* Properties *)

\* the Generate() calls that returned a document
Successful == {k \in DOMAIN results : results[k].err = NoError}

\* C1: after every successful Generate(), the second and later ones on the same
\* Generator included, every value a reference of the returned tree was resolved
\* to is an identifier generated in the same namespace during that same call.
C1_ReferencesResolveToOwnIdentifiers ==
  \A k \in Successful :
    \A r \in results[k].resolved :
      \A i \in DOMAIN r.Values : <<r.Namespace, r.Values[i]>> \in results[k].minted

\* C2: two Generators constructed with identical seeds, template and settings
\* return identical trees from Generate(), also when two or more namespaces hold
\* placeholders the fixup pass resolves.  The second source is asked the same
\* questions, in the same order, as the first and so gives the same answers.
C2_SameSeedSameOutput ==
  (phase = "idle" /\ Rand.mode = "replay" /\ ~Rand.diverged /\ Len(results) = 2)
  => /\ results[2].json = results[1].json
     /\ results[2].err = results[1].err

\* the step is the return of an activation of generateNode
ReturnsFromGenerateNode ==
  /\ phase = "generate"
  /\ stack # <<>>
  /\ Top.fn = "generateNode"
  /\ stack' = SubSeq(stack, 1, Len(stack) - 1)

\* C3: whenever generateNode returns an abandon-class error, the ledger holds
\* what it held when that call was entered: every namespace the same sequence of
\* identifiers and the same sequence of placeholders, and a namespace that got its
\* first identifier or placeholder during the call holds none.
C3_AbandonRestoresLedger ==
  [][ReturnsFromGenerateNode /\ IsBranchAbandoned(ret'.err)
       => Ledger(NameSpaces', mem') = Top.entry]_vars

\* a generateNode whose call added to the ledger has returned an abandon-class
\* error and its deferred function restored the snapshot
C3_Witness ==
  /\ ret.fn = "generateNode"
  /\ IsBranchAbandoned(ret.err)
  /\ ret.restored

\* the activations of generateNode on the stack, from the root call inwards
NodeDepths == SelectSeq(stack, LAMBDA f : f.fn = "generateNode")

\* every nested call of generateNode has a strictly smaller depth than the
\* calls it is nested in, and no call is nested deeper than the root budget
DepthDecreases ==
  /\ \A i, j \in DOMAIN NodeDepths : i < j => NodeDepths[j].depth < NodeDepths[i].depth
  /\ Len(NodeDepths) <= RootDepth + 1

\* a call of generateNode with depth <= 0 returns ErrDepthExceeded and neither
\* instantiates anything nor draws nor touches the ledger
DepthExceededAtZero ==
  (phase = "generate" /\ stack # <<>> /\ Top.fn = "generateNode" /\ Top.pc = "enter"
     /\ Top.depth <= 0)
  => /\ stack' = SubSeq(stack, 1, Len(stack) - 1)
     /\ ret'.err = ErrDepthExceeded
     /\ ret'.val = NilV
     /\ UNCHANGED <<NameSpaces, mem, refs, Rand, Template, minted>>

\* C4: generateNode terminates, also for types that refer to themselves through
\* objects, arrays or alternations: a call with depth <= 0 returns
\* ErrDepthExceeded without instantiating anything, every nested call has a
\* strictly smaller depth, and the root call returns.
C4_GenerateNodeTerminates ==
  /\ []DepthDecreases
  /\ [][DepthExceededAtZero]_vars
  /\ (phase = "generate") ~> (phase # "generate")

\* a call of generateNode with depth <= 0 has returned ErrDepthExceeded to a
\* caller that is nested in other calls
C4_Witness ==
  /\ phase = "generate"
  /\ ret.fn = "generateNode"
  /\ ret.err = ErrDepthExceeded
  /\ Len(NodeDepths) >= 2


\* the arrays with UniqueItems in the written tree v, each as its sequence of items
RECURSIVE UniqueArrays(_)
UniqueArrays(v) ==
  CASE v.tag = "array" ->
         (IF v.unique THEN {v.items} ELSE {})
           \cup UNION {UniqueArrays(v.items[i]) : i \in DOMAIN v.items}
    [] v.tag = "object" -> UNION {UniqueArrays(v.props[k]) : k \in DOMAIN v.props}
    [] OTHER -> {}

\* C5: in the tree a successful Generate() returns, references resolved, an
\* array of a node with UniqueItems holds no two structurally equal elements,
\* also when its items are references or come from an alternation of a
\* reference and a string type.
C5_UniqueItemsAfterFixup ==
  \A k \in Successful :
    \A items \in UniqueArrays(results[k].json) :
      \A i, j \in DOMAIN items : i # j => items[i] # items[j]

\* fixupReferences has just succeeded
FixupSucceeded ==
  /\ phase = "idle"
  /\ results # <<>>
  /\ results[Len(results)].err = NoError

\* the placeholders the ledger holds
Placeholders == UNION {Range(RefsOf(NameSpaces, mem, name)) : name \in DOMAIN NameSpaces}

\* C6: after fixupReferences succeeds every placeholder is resolved by its
\* arity: -1 to exactly one value of its namespace, 0 to an empty collection,
\* n >= 1 to exactly n values of its namespace, pairwise distinct as strings.
C6_ResolvedByArity ==
  FixupSucceeded =>
    \A p \in Placeholders :
      LET ref == refs[p]
          known == Range(ValuesOf(NameSpaces, mem, ref.Namespace))
      IN /\ Range(ref.Values) \subseteq known
         /\ ref.Length < 0 => Len(ref.Values) = 1
         /\ ref.Length = 0 => Len(ref.Values) = 0
         /\ ref.Length > 0 =>
              /\ Len(ref.Values) = ref.Length
              /\ \A i, j \in DOMAIN ref.Values : i # j => ref.Values[i] # ref.Values[j]

\* the step is the return of an activation of generateObject without an error
GenerateObjectSucceeds ==
  /\ phase = "generate"
  /\ stack # <<>>
  /\ Top.fn = "generateObject"
  /\ stack' = SubSeq(stack, 1, Len(stack) - 1)
  /\ ret'.err = NoError

\* C7: when generateObject succeeds and the node declares enough properties to
\* reach the lower bound, the object has at least max(MinProperties, number of
\* required properties) and at most the effective maximum of properties
\* (MaxProperties when >= 0, else the number of declared properties), also when
\* there are more required properties than MaxProperties.
C7_PropertyCountWithinBounds ==
  [][GenerateObjectSucceeds =>
       LET node == Template.Types[Top.typename]
           lower == max(node.MinProperties, Len(Top.required))
           count == Cardinality(DOMAIN ret'.val.props)
       IN Len(node.Properties) >= lower
            => (lower <= count /\ count <= maxPropsOf(node))]_vars

\* the step is the return of an activation of randomArray with minItems >= 1,
\* every instantiation of whose item type failed with an abandon-class error
ArrayOfAbandonedItemsReturns ==
  /\ phase = "generate"
  /\ stack # <<>>
  /\ Top.fn = "randomArray"
  /\ stack' = SubSeq(stack, 1, Len(stack) - 1)
  /\ Top.minitems >= 1
  /\ Top.itemAbandoned >= 1
  /\ Top.itemOK = 0
  /\ Top.itemFatal = 0

C9_NoPlaceholderWithoutValues ==
  /\ phase = "fixup" =>
       \A name \in DOMAIN NameSpaces :
         ~(Len(RefsOf(NameSpaces, mem, name)) > 0 /\ Len(ValuesOf(NameSpaces, mem, name)) = 0)
  /\ \A k \in DOMAIN results : results[k].err.msg # ErrFixupNoIDs("").msg

\* every step the generator can take is taken when it stays possible
SpecFair == Spec /\ WF_vars(Next)

\* C10, as stated: for every expression CompileRegexp accepts, each string
\* Pattern.Sample returns matches the expression, across alternation, character
\* class, quantifier and begin and end of text anchor nodes.
C10_SampleMatches ==
  re.state = "sampled" => MatchString(re.ast, sample)

\* C10, amended: each string Pattern.Sample returns matches the accepted
\* expression with its begin and end of text anchors taken for empty matches,
\* and so the expression itself when it has no anchor.
C10_SampleMatchesUnanchored ==
  re.state = "sampled" =>
    /\ MatchString(Unanchored(re.ast), sample)
    /\ ~Anchored(re.ast) => MatchString(re.ast, sample)

\* a string was sampled for an expression with a character class under a
\* quantifier, from the second range of the class
C10_Witness ==
  /\ re.state = "sampled"
  /\ re.text = "[0-1][ay]+"
  /\ Len(sample) >= 3
  /\ sample[2] = Runes.y

\* C11: CompileRegexp returns an error, and no Pattern, for every expression
\* whose tree holds, at the top or below alternation, concatenation, capture or
\* a quantifier, an operator outside the supported set, such as a word boundary
\* or a no-word-boundary assertion.
C11_UnsupportedRejected ==
  (re.state # "parsed" /\ \E n \in Nodes(re.ast) : n.Op \notin supportedOps)
    => (re.state = "rejected" /\ re.err # "")

\* an expression with a word boundary below a quantifier, a capture and a
\* concatenation was rejected
C11_Witness ==
  /\ re.state = "rejected"
  /\ re.text = "(a\\b)+"
  /\ re.err = "unsupported regexp operations"

\* C12: CompileRegexp returns an error for every expression whose tree holds a
\* character class without code points, wherever the class is in the tree, so
\* that Sample never chooses from an empty class.
C12_EmptyClassRejected ==
  /\ (re.state # "parsed" /\ \E n \in Nodes(re.ast) : n.Op = "OpCharClass" /\ n.Rune = <<>>)
       => re.state = "rejected"
  /\ re.state # "panicked"

\* C14: Generate() leaves the Template as it is: after any number of Generate()
\* calls every type node, the order of the candidates of every alternation
\* included, is what NewGenerator was given.
C14_TemplateUnchanged == Template = input.Template

\* the step is the return of an activation of randomOneOf
ReturnsFromRandomOneOf ==
  /\ phase = "generate"
  /\ stack # <<>>
  /\ Top.fn = "randomOneOf"
  /\ stack' = SubSeq(stack, 1, Len(stack) - 1)

C15_ResolvedOnce ==
  /\ [](\A p \in DOMAIN refs : refs[p].fixups = 0 => (refs[p].isNil /\ refs[p].Values = <<>>))
  /\ [][\A p \in DOMAIN refs : refs[p].fixups >= 1 => refs'[p].Values = refs[p].Values]_vars

\* the element of the shared list Generator g is about to read or write
Access(g) ==
  CASE gens[g].pc = "read j" -> [at |-> gens[g].j + 1, write |-> FALSE]
    [] gens[g].pc = "read i" -> [at |-> gens[g].i + 1, write |-> FALSE]
    [] gens[g].pc = "write i" -> [at |-> gens[g].i + 1, write |-> TRUE]
    [] gens[g].pc = "write j" -> [at |-> gens[g].j + 1, write |-> TRUE]
    [] gens[g].pc = "range" -> [at |-> 1, write |-> FALSE]
    [] OTHER -> [at |-> 0, write |-> FALSE]

\* two Generators are about to access the same element, one of them writing
Race ==
  \E g, h \in DOMAIN gens :
    /\ g # h
    /\ Access(g).at # 0
    /\ Access(g).at = Access(h).at
    /\ Access(g).write \/ Access(h).write

\* what Generate() of Generator g returns when it runs alone with its draws
Alone(g) ==
  LET ts == RootOneOf(input.Template)
      shuffled == swaps(ts, gens[g].draws, Len(ts) - 1)
  IN {StrV(v) : v \in Range(input.Template.Types[shuffled[1]].Enum)}

\* C13: two Generators with a ledger, file cache and random source each, built
\* from the same Template, can run Generate() side by side under any
\* interleaving: no memory location is written by one while the other reads or
\* writes it, and each returns what it would return running alone.
C13_GeneratorsIndependent ==
  /\ ~Race
  /\ \A g \in DOMAIN gens : gens[g].pc = "done" => gens[g].val \in Alone(g)

\* the names of the entries of a path
Names(path) == [k \in DOMAIN path |-> path[k].Name]

\* the paths of the rules of a limits file, in the order of the file, each with
\* the length of its rule
RECURSIVE RulePaths(_)
RulePaths(rules) ==
  IF rules = <<>> THEN <<>>
  ELSE [k \in DOMAIN Head(rules).Paths |->
          [path |-> Head(rules).Paths[k], length |-> Head(rules).Length]]
       \o RulePaths(Tail(rules))

\* what the rules say about the segments of trail: the length of the last rule
\* with exactly this path, and 0 without one
Guidance(lim, trail) ==
  IF lim = NilLimits THEN 0
  ELSE LET rps == RulePaths(lim.ArrayLength)
           hits == {k \in DOMAIN rps : Names(rps[k].path) = trail}
       IN IF hits = {} THEN 0
          ELSE rps[CHOOSE k \in hits : \A h \in hits : h <= k].length

\* whether some rule has a path that begins with the segments of trail
Guided(lim, trail) ==
  \/ trail = <<>>
  \/ /\ lim # NilLimits
     /\ \E k \in DOMAIN RulePaths(lim.ArrayLength) :
          LET names == Names(RulePaths(lim.ArrayLength)[k].path)
          IN Len(trail) <= Len(names) /\ SubSeq(names, 1, Len(trail)) = trail

\* C16: descending the limit tree is safe for every sequence of segment names:
\* Descend gives the child of that segment, or a null node when there is none
\* or when it is called on a null node; GetLimit of a null node is 0; and the
\* tree of absent limits gives 0 at the root and on every path.
C16_DescentIsSafe ==
  walk.state \in {"at", "read"} =>
    /\ (walk.node = NilNode) <=> ~Guided(Limits, walk.trail)
    /\ walk.node # NilNode => GetLimit(walk.node) = Guidance(Limits, walk.trail)
    /\ walk.state = "read" =>
         /\ walk.limit = Guidance(Limits, walk.trail)
         /\ walk.node = NilNode => walk.limit = 0
         /\ Limits = NilLimits => walk.limit = 0

\* the limit was read of the null node that Descend gave for a null node, in a
\* tree that has rules
C16_Witness ==
  /\ walk.state = "read"
  /\ Limits # NilLimits
  /\ Limits.ArrayLength # <<>>
  /\ Len(walk.trail) >= 2
  /\ ~Guided(Limits, SubSeq(walk.trail, 1, Len(walk.trail) - 1))
  /\ walk.node = NilNode
  /\ walk.limit = 0

\* whether trail goes through the segments of path, those marked as repeated
\* one or more times
RECURSIVE Repeats(_, _)
Repeats(path, trail) ==
  IF path = <<>> THEN trail = <<>>
  ELSE /\ trail # <<>>
       /\ Head(trail) = Head(path).Name
       /\ \/ Repeats(Tail(path), Tail(trail))
          \/ Head(path).Recursive /\ Repeats(path, Tail(trail))

\* C17: a path with a segment marked as zero-or-more repetition is inserted as
\* a self-referential node, so that descending through the repeated segment
\* once, twice or any number of times reaches a node with the limit of the rule.
C17_RepetitionReachesLimit ==
  (walk.state = "read" /\ Limits # NilLimits) =>
    \A k \in DOMAIN RulePaths(Limits.ArrayLength) :
      LET rule == RulePaths(Limits.ArrayLength)[k]
      IN ((\E e \in DOMAIN rule.path : rule.path[e].Recursive) /\ Repeats(rule.path, walk.trail))
           => walk.limit = rule.length

\* the step is a call of book
BookCalled == fs'.calls = fs.calls + 1

\* C18: within one Generator the file at a path is opened and read at most once
\* after a first successful read: the validated content is cached by path and
\* every later book call for that path uses the cached content; a file that is
\* unreadable or not valid UTF-8 gives an error and is not cached.
C18_ReadOnceThenCached ==
  [][/\ \A path \in Paths :
          /\ fs.read[path] =>
               /\ fs'.opens[path] = fs.opens[path]
               /\ path \in DOMAIN FileCache
               /\ path \in DOMAIN FileCache' /\ FileCache'[path] = FileCache[path]
          /\ (~fs.read[path] /\ ~fs'.read[path]) => path \notin DOMAIN FileCache'
     /\ BookCalled =>
          LET path == fs'.last.path
          IN /\ (fs.read[path] /\ ret'.err # PanicIntN) =>
                  /\ ret'.err = NoError
                  /\ ret'.val = StrV(trimmed(FileCache[path], fs'.last.length))
             /\ (~fs.read[path] /\ fs.files[path].kind # "text" /\ ret'.err # PanicIntN) =>
                  /\ ret'.err # NoError
                  /\ ~fs'.read[path]
                  /\ path \notin DOMAIN FileCache']_vars

\* book has answered from the cache, after one read of a file that is no longer
\* what was read
C18_Witness ==
  /\ ret.fn = "book"
  /\ ret.err = NoError
  /\ fs.last.hit
  /\ fs.opens[fs.last.path] = 1
  /\ fs.files[fs.last.path].kind = "binary"
  /\ Len(ret.val.s) >= 2

\* the output file names whose base name ends in ".json", each with its base
\* name without that suffix
TrackingIDs ==
  (OutputFiles.out :> <<"o", "u", "t">>) @@ (OutputFiles.dirOut :> <<"o", "u", "t">>)
    @@ (OutputFiles.dotJSON :> <<>>)

\* the tree has an object at document/tracking
HasTracking(csaf) ==
  /\ csaf.tag = "object"
  /\ "document" \in DOMAIN csaf.props
  /\ csaf.props.document.tag = "object"
  /\ "tracking" \in DOMAIN csaf.props.document.props
  /\ csaf.props.document.props.tracking.tag = "object"

\* C19: with an output file name, the document written has document/tracking/id
\* equal to the base name of the file without ".json"; when the name does not
\* end in ".json", or the generated document has no document/tracking object,
\* generateToFile returns an error and creates no output file.
C19_TrackingIDFromFilename ==
  /\ [](\A file \in DOMAIN cli.created :
         cli.created[file] # Truncated =>
           /\ file \in DOMAIN TrackingIDs
           /\ HasTracking(cli.created[file])
           /\ "id" \in DOMAIN cli.created[file].props.document.props.tracking.props
           /\ cli.created[file].props.document.props.tracking.props.id = StrV(TrackingIDs[file]))
  /\ [][(cli'.n = cli.n + 1 /\ cli'.generated.err = NoError /\ cli'.outputfile # <<>>
           /\ (cli'.outputfile \notin DOMAIN TrackingIDs \/ ~HasTracking(cli'.generated.doc)))
         => (cli'.err # NoError /\ cli'.created = cli.created)]_vars

\* a document whose tracking object had no id was written to a file in a
\* directory, with the base name of the file as its tracking ID
C19_Witness ==
  /\ cli.err = NoError
  /\ cli.outputfile = OutputFiles.dirOut
  /\ cli.outputfile \in DOMAIN cli.created
  /\ "id" \notin DOMAIN cli.generated.doc.props.document.props.tracking.props
  /\ cli.created[cli.outputfile].props.document.props.tracking.props.id = StrV(<<"o", "u", "t">>)

\* the step is the return of an activation of generateObject that has gone on
\* to its optional properties
ReturnsFromOptional ==
  /\ phase = "generate"
  /\ stack # <<>>
  /\ Top.fn = "generateObject"
  /\ Top.pc \in {"optional", "optional_ret"}
  /\ stack' = SubSeq(stack, 1, Len(stack) - 1)

\* how often the property prop occurs in the list props
Occurs(props, prop) == Cardinality({i \in DOMAIN props : props[i] = prop})

\* C21: in generateObject an optional property whose instantiation fails with
\* an abandon-class error is skipped, is never instantiated a second time and
\* does not count toward the quota of extra properties, and the remaining
\* optional properties are still tried: the loop ends only when the quota of
\* successful ones is reached or the pool is used up.  An object that ends with
\* fewer than minProps properties fails with the last abandon-class error seen,
\* or with a non-abandon error when no abandon occurred.
C21_AbandonedOptionalSkipped ==
  [][ReturnsFromOptional =>
       LET f == Top
           node == Template.Types[f.typename]
           pool == SelectSeq(node.Properties, LAMBDA prop : ~prop.Required)
           tried == IF f.pc = "optional_ret" THEN TriedProperty(f, ret.err) ELSE f.tried
           n == Len(tried)
           ok == {k \in 1..n : tried[k].err = NoError}
           abandoned == {k \in 1..n : IsBranchAbandoned(tried[k].err)}
           last == CHOOSE k \in abandoned : \A j \in abandoned : j <= k
           fatal == n > 0 /\ tried[n].err # NoError /\ ~IsBranchAbandoned(tried[n].err)
           count == Cardinality(DOMAIN f.properties)
       IN /\ \A prop \in Range(pool) :
               Occurs([k \in 1..n |-> tried[k].prop], prop) + Occurs(f.optional, prop)
                 = Occurs(pool, prop)
          /\ \A k \in 1..(n - 1) : tried[k].err = NoError \/ IsBranchAbandoned(tried[k].err)
          /\ Cardinality(ok) <= f.quota
          /\ IF fatal
             THEN ret'.err = tried[n].err /\ ret'.val = NilV
             ELSE /\ Cardinality(ok) = f.quota \/ f.optional = <<>>
                  /\ IF count >= f.minProps
                     THEN ret'.err = NoError /\ ret'.val = ObjV(f.properties)
                     ELSE /\ ret'.val = NilV
                          /\ ret'.err # NoError
                          /\ IF abandoned # {}
                             THEN ret'.err = tried[last].err
                             ELSE ~IsBranchAbandoned(ret'.err)]_vars

\* generateObject has tried an optional property that was abandoned and after
\* it another one that gave a value, which used up the quota
C21_Witness ==
  /\ phase = "generate"
  /\ stack # <<>>
  /\ Top.fn = "generateObject"
  /\ Top.pc = "optional"
  /\ Len(Top.tried) >= 2
  /\ IsBranchAbandoned(Top.tried[1].err)
  /\ Top.tried[Len(Top.tried)].err = NoError
  /\ Top.extraProps = 0
  /\ Top.quota = 1

\* an error that is not abandon-class
Fatal(err) == err # NoError /\ ~IsBranchAbandoned(err)

\* C22: a fatal error raised anywhere during generation is never retried or
\* absorbed.  The step after an activation returned a fatal error is the return
\* of its caller with that same error and no value: no other property, attempt
\* or candidate is tried, nothing is drawn and the ledger stays as it is (no
\* snapshot is restored); when the root call returned it, Generate() returns the
\* error with a nil document and the fixup pass does not run.
C22_FatalPropagates ==
  [][(phase = "generate" /\ ret.fn # "" /\ Fatal(ret.err)) =>
       IF stack = <<>>
       THEN /\ phase' = "idle"
            /\ results' = Append(results, results'[Len(results')])
            /\ results'[Len(results')].err = ret.err
            /\ results'[Len(results')].doc = NilV
            /\ UNCHANGED <<NameSpaces, mem, refs, Rand>>
       ELSE /\ Len(stack') = Len(stack) - 1
            /\ \A i \in DOMAIN stack' :
                 /\ stack'[i].fn = stack[i].fn
                 /\ stack'[i].pc = stack[i].pc
                 /\ stack'[i].typename = stack[i].typename
            /\ ret'.fn = Top.fn
            /\ ret'.err = ret.err
            /\ ret'.val = NilV
            /\ UNCHANGED <<NameSpaces, mem, refs, Rand>>]_vars

\* Generate() has returned the error of an unknown type that was met below an
\* alternation, an array slot and an optional property, and the identifier
\* generated before it is still in the ledger
C22_Witness ==
  /\ phase = "idle"
  /\ input = Plain(TmplFatalDeep)
  /\ results # <<>>
  /\ results[Len(results)].err = ErrUnknownType("missing")
  /\ results[Len(results)].doc = NilV
  /\ Len(ValuesOf(NameSpaces, mem, "g")) >= 1

\* the activations of randomArray that have chosen their target length
Arrays == {i \in DOMAIN stack : stack[i].fn = "randomArray" /\ stack[i].pc # "start"}

\* the largest whole number not above SizeFactor x limit
Scaled(limit) == CHOOSE k \in 0..(SizeFactor[1] * limit) :
                   /\ k * SizeFactor[2] <= SizeFactor[1] * limit
                   /\ (k + 1) * SizeFactor[2] > SizeFactor[1] * limit

\* the target length is exactly maxItems when ForceMaxSize is set and otherwise
\* lies in [minItems, maxItems], a negative MinItems counting as 0 and a negative
\* MaxItems as max(minItems, SizeFactor x limit of the current node)
TargetLength ==
  \A i \in Arrays :
    LET f == stack[i]
        tmpl == Template.Types[f.typename]
        lo == IF tmpl.MinItems < 0 THEN 0 ELSE tmpl.MinItems
        limit == IF f.limits.nil THEN 0 ELSE f.limits.Limit
        hi == IF tmpl.MaxItems < 0
              THEN (IF Scaled(limit) > lo THEN Scaled(limit) ELSE lo)
              ELSE tmpl.MaxItems
    IN /\ f.minitems = lo
       /\ f.maxitems = hi
       /\ ForceMaxSize => f.length = hi
       /\ ~ForceMaxSize => (lo <= f.length /\ f.length <= hi)
       /\ f.slot <= f.length
       /\ Len(f.items) <= f.slot

\* a slot makes at most 10 instantiation attempts
AttemptsBounded ==
  \A i \in DOMAIN stack :
    stack[i].fn = "generateItemUntil" =>
      /\ stack[i].maxAttempts = 10
      /\ stack[i].attempt <= 10
      /\ stack[i].pc = "loop_ret" => stack[i].attempt < 10

\* generateItemUntil has returned to randomArray after all its attempts were
\* rejected as duplicates
SlotExhausted ==
  /\ phase = "generate"
  /\ stack # <<>>
  /\ Top.fn = "randomArray"
  /\ Top.pc = "loop_ret"
  /\ ret.fn = "generateItemUntil"
  /\ ret.err = ErrNoValidValue
  /\ Top.lastItemErr = NoError

\* the step is the return of randomArray after all its slots
ReturnsAfterAllSlots ==
  /\ phase = "generate"
  /\ stack # <<>>
  /\ Top.fn = "randomArray"
  /\ Top.pc = "loop"
  /\ stack' = SubSeq(stack, 1, Len(stack) - 1)

\* C23: for an array generated item by item the target length is exactly
\* maxItems when ForceMaxSize is set and otherwise lies in [minItems, maxItems]
\* (a negative MinItems counts as 0, a negative MaxItems is max(minItems,
\* SizeFactor x limit of the current limit node)); each slot makes at most 10
\* instantiation attempts; a slot whose attempts were all rejected as duplicates
\* is skipped; and the array succeeds only if it ends with at least minItems
\* items, else it fails with ErrNoValidValue.
C23_ArrayLengthAndSlots ==
  /\ [](TargetLength /\ AttemptsBounded)
  /\ [][SlotExhausted =>
          /\ stack' = [stack EXCEPT ![Len(stack)] =
                         [Top EXCEPT !.pc = "loop", !.slot = Top.slot + 1]]
          /\ stack'[Len(stack)].items = Top.items]_vars
  /\ [][ReturnsAfterAllSlots =>
          /\ Top.slot = Top.length
          /\ IF Len(Top.items) >= Top.minitems
             THEN ret'.err = NoError /\ ret'.val.tag = "array" /\ ret'.val.items = Top.items
             ELSE ret'.err = ErrNoValidValue /\ ret'.val = NilV]_vars

\* an array of distinct items with room for two has filled its first slot, has
\* seen ten more items that were all rejected as duplicates, and has gone on
\* past the second slot with one item
C23_Witness ==
  /\ phase = "generate"
  /\ stack # <<>>
  /\ Top.fn = "randomArray"
  /\ Top.pc = "loop"
  /\ Top.length = 2
  /\ Top.slot = 2
  /\ Len(Top.items) = 1
  /\ Top.itemOK = 11
  /\ Top.minitems = 1

\* randomArray is entered for an array of distinct References into a namespace
\* that holds at least minItems values
AggregateCase ==
  /\ Running("randomArray", "start")
  /\ LET tmpl == Template.Types[Top.typename]
     IN /\ tmpl.UniqueItems
        /\ tmpl.Items \in DOMAIN Template.Types
        /\ Template.Types[tmpl.Items].kind = "ref"
        /\ Len(ValuesOf(NameSpaces, mem, Template.Types[tmpl.Items].Namespace))
             >= (IF tmpl.MinItems < 0 THEN 0 ELSE tmpl.MinItems)

\* the placeholders randomArray registered for whole arrays
Aggregates == {p \in Placeholders : refs[p].Length >= 0}

\* C24: when the item type of an array is a Reference into a namespace that
\* already holds known >= minItems values and UniqueItems is set, randomArray
\* instantiates no items: it registers exactly one placeholder, of an arity in
\* [minItems, known], and returns it; after the fixup pass that placeholder
\* holds that many pairwise distinct values of the namespace's identifiers.
C24_AggregatePlaceholder ==
  /\ [][AggregateCase =>
          LET tmpl == Template.Types[Top.typename]
              namespace == Template.Types[tmpl.Items].Namespace
              minitems == IF tmpl.MinItems < 0 THEN 0 ELSE tmpl.MinItems
              known == Len(ValuesOf(NameSpaces, mem, namespace))
              p == Len(refs) + 1
          IN /\ stack' = SubSeq(stack, 1, Len(stack) - 1)
             /\ ret'.err = NoError
             /\ ret'.val = RefV(p)
             /\ Len(refs') = p
             /\ refs'[p].Namespace = namespace
             /\ minitems <= refs'[p].Length /\ refs'[p].Length <= known
             /\ RefsOf(NameSpaces', mem', namespace)
                  = Append(RefsOf(NameSpaces, mem, namespace), p)
             /\ ValuesOf(NameSpaces', mem', namespace) = ValuesOf(NameSpaces, mem, namespace)]_vars
  /\ [](FixupSucceeded =>
          \A p \in Aggregates :
            /\ Len(refs[p].Values) = refs[p].Length
            /\ Range(refs[p].Values) \subseteq Range(ValuesOf(NameSpaces, mem, refs[p].Namespace))
            /\ \A i, j \in DOMAIN refs[p].Values : i # j => refs[p].Values[i] # refs[p].Values[j])

\* C25, as stated: every nested instantiation receives a depth exactly one less
\* than the depth of the instantiation that encloses it, for object properties,
\* alternation candidates and array items alike, so that with the root budget
\* of 25 a value nested k levels below the root is instantiated with depth 25 - k.
C25_DepthOneLess ==
  \A k \in DOMAIN NodeDepths : NodeDepths[k].depth = RootDepth - (k - 1)

\* what the instantiation of type typename hands on less to the instantiations
\* nested in it: 2 for the items of an array, 1 otherwise
Step(typename) ==
  IF typename \in DOMAIN Template.Types /\ Template.Types[typename].kind = "array"
  THEN 2 ELSE 1

\* C25, amended: an object property and an alternation candidate receive a
\* depth one less than the depth of the instantiation that encloses them, an
\* array item a depth two less (one for generateItemUntil, one for its call of
\* generateNode), so that with the root budget of 25 a value nested k levels
\* below the root, a of them array levels, is instantiated with depth 25 - k - a.
C25_DepthByNesting ==
  /\ \A k \in DOMAIN NodeDepths :
       NodeDepths[k].depth
         = RootDepth - SumSeq([j \in 1..(k - 1) |-> Step(NodeDepths[j].typename)])
  /\ \A i \in DOMAIN stack :
       (i > 1 /\ stack[i].fn # "generateNode") =>
         stack[i].depth = (IF stack[i].fn = "generateItemUntil"
                           THEN stack[i - 1].depth - 1 ELSE stack[i - 1].depth)

\* a reference is instantiated as a candidate of an alternation that is the item
\* of an array that is a property of the root object
C25_Witness ==
  /\ phase = "generate"
  /\ Len(NodeDepths) = 4
  /\ [k \in 1..4 |-> NodeDepths[k].typename] = <<"doc", "arr", "alt", "xref">>
  /\ [k \in 1..4 |-> NodeDepths[k].depth] = <<25, 24, 22, 21>>

\* C26: rollback never removes anything that survives in the result: whenever
\* Generate() has reached the fixup pass, every reference of the generated tree
\* is in the placeholder list of its namespace (and so gets resolved), and every
\* identifier of the tree is in the value list of its namespace.
C26_TreeIsInLedger ==
  phase = "fixup" =>
    /\ \A p \in RefsIn(doc) : p \in Range(RefsOf(NameSpaces, mem, refs[p].Namespace))
    /\ \A id \in IDsIn(doc) : id[2] \in Range(ValuesOf(NameSpaces, mem, id[1]))

\* the fixup pass is reached with a tree that holds an identifier and a
\* reference, after a branch that had generated identifiers was rolled back
C26_Witness ==
  /\ phase = "fixup"
  /\ input = Plain(TmplRollback)
  /\ RefsIn(doc) # {}
  /\ IDsIn(doc) # {}
  /\ \E id \in minted : id[1] = "h"
  /\ ValuesOf(NameSpaces, mem, "h") = <<>>

\* C27: from the creation of a placeholder of arity n >= 1 to the fixup pass,
\* through all later instantiations and snapshot restores, the namespace of the
\* placeholder holds at least n values whenever the placeholder is still
\* registered, so chooseK is never asked for more elements than the value list
\* holds.
C27_ArityWithinValues ==
  /\ \A p \in Placeholders :
       refs[p].Length >= 1 =>
         Len(ValuesOf(NameSpaces, mem, refs[p].Namespace)) >= refs[p].Length
  /\ \A k \in DOMAIN results : results[k].err # PanicIndex

\* the fixup pass is reached with a placeholder of arity 2 registered, after a
\* branch generated later, which had added identifiers and a placeholder of
\* arity 3, was rolled back
C27_Witness ==
  /\ phase = "fixup"
  /\ input = Plain(TmplAggregateRollback)
  /\ Len(refs) >= 2
  /\ refs[2].Length = 3
  /\ Placeholders = {1}
  /\ refs[1].Length = 2
  /\ Len(ValuesOf(NameSpaces, mem, "g")) = 2

\* C28: no reference can resolve to an identifier that is absent from the
\* document: whenever Generate() has reached the fixup pass, every value in the
\* value list of every namespace occurs as an identifier of that namespace in
\* the generated tree, also when items that hold identifiers were generated for
\* an array of distinct items and then rejected as duplicates or dropped with
\* their slot.
C28_ValuesAreInTree ==
  phase = "fixup" =>
    \A name \in DOMAIN NameSpaces :
      \A v \in Range(ValuesOf(NameSpaces, mem, name)) : <<name, v>> \in IDsIn(doc)

\* every array of the written tree v, read as a value of type typename, has at
\* most as many elements as the MaxItems >= 0 of its node allows
RECURSIVE WithinMaxItems(_, _)
WithinMaxItems(v, typename) ==
  IF typename \notin DOMAIN Template.Types THEN TRUE
  ELSE LET node == Template.Types[typename]
       IN CASE node.kind = "object" /\ v.tag = "object" ->
                 \A i \in DOMAIN node.Properties :
                   node.Properties[i].Name \in DOMAIN v.props
                     => WithinMaxItems(v.props[node.Properties[i].Name], node.Properties[i].Type)
            [] node.kind = "array" /\ v.tag = "array" ->
                 /\ node.MaxItems >= 0 => Len(v.items) <= node.MaxItems
                 /\ \A i \in DOMAIN v.items : WithinMaxItems(v.items[i], node.Items)
            [] node.kind = "oneof" ->
                 \E i \in DOMAIN node.OneOf : WithinMaxItems(v, node.OneOf[i])
            [] OTHER -> TRUE

\* C29: for an Array node with an explicit MaxItems >= 0, every array a
\* successful Generate() produces has at most MaxItems elements, when it was
\* generated item by item and when it is a placeholder for the whole array that
\* the fixup pass resolved.
C29_AtMostMaxItems ==
  \A k \in Successful : WithinMaxItems(results[k].json, Template.Root)

\* C30: for every template whose length and item bounds satisfy
\* 0 <= min <= max, min = max included, every random draw made during
\* Generate() has a range that is not empty (rand.IntN is called with an
\* argument >= 1 only), so that string, lorem, book and array generation
\* complete without a runtime panic.  Here for the book nodes, whose bounds are
\* unset, 0 and 3, or 1 and 1: no call of book ends in the panic of rand.IntN.
C30_DrawsHaveRange ==
  /\ \A node \in BookNodes :
       \/ node.MinLength < 0 /\ node.MaxLength < 0
       \/ 0 <= node.MinLength /\ node.MinLength <= node.MaxLength
  /\ ~(ret.fn = "book" /\ ret.err = PanicIntN)

====
